---- MODULE Spec2Model ----
(***************************************************************************)
(* Model of the results-reporting pipeline of internal/commands/result.go: *)
(* CreateScanReport (orchestrator), summaryReport (summary builder),       *)
(* createReport (one format), exportPdfResults / exportSbomResults (the    *)
(* asynchronous report jobs).                                              *)
(***************************************************************************)
EXTENDS Integers, Sequences, FiniteSets, TLC

(***************************************************************************)
(* Bounds of the model.                                                    *)
(***************************************************************************)
MaxResults == 2
MaxFormats == 2
MaxHist == 3
MaxRetry == 2
MaxPaths == 2

(***************************************************************************)
(* Program constants (result.go, const block).                             *)
(***************************************************************************)
notAvailableNumber == -1
mediumLabel == "medium"
highLabel == "high"
lowLabel == "low"
infoLabel == "info"
startedStatus == "started"
requestedStatus == "requested"
completedStatus == "completed"
exportingStatus == "Exporting"
pendingStatus == "Pending"

SastType == "sast"
ScaType == "sca"
KicsType == "kics"
Engines == {SastType, ScaType, KicsType}

ScanFailed == "Failed"
ScanCanceled == "Canceled"
notExploitable == "NOT_EXPLOITABLE"

FormatSarif == "sarif"
FormatSonar == "sonar"
FormatJSON == "json"
FormatGL == "gl-sast"
FormatSummaryConsole == "summaryConsole"
FormatSummary == "summaryHTML"
FormatSummaryJSON == "summaryJSON"
FormatPDF == "pdf"
FormatSummaryMarkdown == "markdown"
FormatSbom == "sbom"

summaryFormats ==
  {FormatSummaryConsole, FormatSummary, FormatSummaryJSON, FormatPDF,
   FormatSummaryMarkdown, FormatSbom, FormatGL}

(***************************************************************************)
(* Errors are sequences of message parts; the nil error is the empty one.  *)
(***************************************************************************)
NoErr == <<>>
ErrContains(e, s) == \E i \in 1..Len(e) : e[i] = s

(***************************************************************************)
(* String functions of the Go library, on the strings of the model.        *)
(***************************************************************************)
ToLower(s) ==
  CASE s = "Completed" -> "completed"
    [] s = "COMPLETED" -> "completed"
    [] s = "Partial" -> "partial"
    [] s = "Failed" -> "failed"
    [] s = "Running" -> "running"
    [] s = "Queued" -> "queued"
    [] s = "HIGH" -> "high"
    [] s = "MEDIUM" -> "medium"
    [] s = "LOW" -> "low"
    [] s = "INFO" -> "info"
    [] s = "High" -> "high"
    [] s = "Exporting" -> "exporting"
    [] s = "Pending" -> "pending"
    [] s = "SomeOtherStatus" -> "someotherstatus"
    [] s = "SARIF" -> "sarif"
    [] s = "CycloneDxJson" -> "cyclonedxjson"
    [] s = "CycloneDxXml" -> "cyclonedxxml"
    [] s = "ScanSummary" -> "scansummary"
    [] s = "ExecutiveSummary" -> "executivesummary"
    [] s = "ScanResults" -> "scanresults"
    [] s = "Sast" -> "sast"
    [] OTHER -> s

EqualFold(a, b) == ToLower(a) = ToLower(b)

TrimSpace(s) ==
  CASE s = " sast " -> "sast"
    [] s = " sca" -> "sca"
    [] s = "kics " -> "kics"
    [] OTHER -> s

(***************************************************************************)
(* Helpers of the package that live outside result.go.                     *)
(***************************************************************************)
contains(list, x) == x \in list

isExploitable(state) == ~EqualFold(state, notExploitable)

IsFormat(val, format) == EqualFold(val, format)

(***************************************************************************)
(* The Summary (wrappers.ResultSummary), the fields the pipeline computes. *)
(***************************************************************************)
NilSummary ==
  [Status |-> "", EnginesEnabled |-> {},
   SastIssues |-> 0, ScaIssues |-> 0, KicsIssues |-> 0, TotalIssues |-> 0,
   HighIssues |-> 0, MediumIssues |-> 0, LowIssues |-> 0, InfoIssues |-> 0,
   RiskStyle |-> "", RiskMsg |-> ""]

\* Variant: the counter starts at the sentinel whatever the engine's status.
initialCounter_AlwaysSentinel(statusDetails, engine) == notAvailableNumber

initialCounter(statusDetails, engine) ==
  IF statusDetails[engine] = ScanFailed \/ statusDetails[engine] = ScanCanceled
    THEN notAvailableNumber
    ELSE 0

convertScanToResultsSummary(scanInfo) ==
  [NilSummary EXCEPT
     !.Status = scanInfo.Status,
     !.EnginesEnabled = scanInfo.Engines,
     !.SastIssues = initialCounter(scanInfo.StatusDetails, SastType),
     !.ScaIssues = initialCounter(scanInfo.StatusDetails, ScaType),
     !.KicsIssues = initialCounter(scanInfo.StatusDetails, KicsType)]

isScanPending(scanStatus) ==
  ~(EqualFold(scanStatus, "Completed") \/ EqualFold(scanStatus, "Partial")
      \/ EqualFold(scanStatus, "Failed"))

\* Variant: every scan status is taken as valid.
isValidScanStatus_Always(status) == TRUE

isValidScanStatus(status) == ~isScanPending(status)

countSeverity(summary, result) ==
  LET severity == ToLower(result.Severity) IN
  IF severity = highLabel THEN [summary EXCEPT !.HighIssues = @ + 1]
  ELSE IF severity = lowLabel THEN [summary EXCEPT !.LowIssues = @ + 1]
  ELSE IF severity = mediumLabel THEN [summary EXCEPT !.MediumIssues = @ + 1]
  ELSE IF severity = infoLabel THEN [summary EXCEPT !.InfoIssues = @ + 1]
  ELSE summary

countEngine(summary, engineType) ==
  IF engineType = SastType
    THEN [summary EXCEPT !.SastIssues = @ + 1, !.TotalIssues = @ + 1]
  ELSE IF engineType = ScaType
    THEN [summary EXCEPT !.ScaIssues = @ + 1, !.TotalIssues = @ + 1]
  ELSE IF engineType = KicsType
    THEN [summary EXCEPT !.KicsIssues = @ + 1, !.TotalIssues = @ + 1]
  ELSE summary

\* Variant: the state of the finding is not looked at.
countResult_AnyState(summary, result) ==
  LET engineType == TrimSpace(result.Type) IN
  IF contains(summary.EnginesEnabled, engineType)
    THEN countSeverity(countEngine(summary, engineType), result)
    ELSE summary

countResult(summary, result) ==
  LET engineType == TrimSpace(result.Type) IN
  IF contains(summary.EnginesEnabled, engineType) /\ isExploitable(result.State)
    THEN countSeverity(countEngine(summary, engineType), result)
    ELSE summary

sumTotalIssues(summary) ==
  [summary EXCEPT !.TotalIssues = summary.SastIssues + summary.ScaIssues + summary.KicsIssues]

\* Variant: a counter at 0 is left at 0.
setNotAvailableNumberIfZero_Never(summary, counter, engineType) == counter

setNotAvailableNumberIfZero(summary, counter, engineType) ==
  IF counter = 0 /\ ~contains(summary.EnginesEnabled, engineType)
    THEN notAvailableNumber
    ELSE counter

\* Variant: the medium bucket is looked at before the high one.
setRiskMsgAndStyle_MediumFirst(summary) ==
  IF summary.MediumIssues > 0
    THEN [summary EXCEPT !.RiskStyle = mediumLabel, !.RiskMsg = "Medium Risk"]
  ELSE IF summary.HighIssues > 0
    THEN [summary EXCEPT !.RiskStyle = highLabel, !.RiskMsg = "High Risk"]
  ELSE IF summary.LowIssues > 0
    THEN [summary EXCEPT !.RiskStyle = lowLabel, !.RiskMsg = "Low Risk"]
  ELSE IF summary.TotalIssues = 0
    THEN [summary EXCEPT !.RiskMsg = "No Risk"]
  ELSE summary

setRiskMsgAndStyle(summary) ==
  IF summary.HighIssues > 0
    THEN [summary EXCEPT !.RiskStyle = highLabel, !.RiskMsg = "High Risk"]
  ELSE IF summary.MediumIssues > 0
    THEN [summary EXCEPT !.RiskStyle = mediumLabel, !.RiskMsg = "Medium Risk"]
  ELSE IF summary.LowIssues > 0
    THEN [summary EXCEPT !.RiskStyle = lowLabel, !.RiskMsg = "Low Risk"]
  ELSE IF summary.TotalIssues = 0
    THEN [summary EXCEPT !.RiskMsg = "No Risk"]
  ELSE summary

\* summaryReport after the count pass: the three sentinel fix-ups and the risk label.
finishSummary(summary) ==
  LET s1 == [summary EXCEPT !.SastIssues = setNotAvailableNumberIfZero(summary, @, SastType)]
      s2 == [s1 EXCEPT !.ScaIssues = setNotAvailableNumberIfZero(s1, @, ScaType)]
      s3 == [s2 EXCEPT !.KicsIssues = setNotAvailableNumberIfZero(s2, @, KicsType)]
  IN setRiskMsgAndStyle(s3)

convertNotAvailableNumberToZero(summary) ==
  IF summary.KicsIssues = notAvailableNumber THEN [summary EXCEPT !.KicsIssues = 0]
  ELSE IF summary.SastIssues = notAvailableNumber THEN [summary EXCEPT !.SastIssues = 0]
  ELSE IF summary.ScaIssues = notAvailableNumber THEN [summary EXCEPT !.ScaIssues = 0]
  ELSE summary

verifyFormatsByReportList(reportFormats, formats) ==
  \E i \in 1..Len(reportFormats) : \E f \in formats : IsFormat(reportFormats[i], f)


(***************************************************************************)
(* Option parsing of the two asynchronous documents.                       *)
(***************************************************************************)
pdfOptionsSectionsMap == {"scansummary", "executivesummary", "scanresults"}
pdfOptionsEnginesMap == {ScaType, SastType, KicsType, "iac-security"}

\* The error of parsePDFOptions: the first option that is in neither map.
parsePDFOptions(pdfOptions) ==
  LET bad == {i \in 1..Len(pdfOptions) :
                /\ ToLower(pdfOptions[i]) \notin pdfOptionsEnginesMap
                /\ ToLower(pdfOptions[i]) \notin pdfOptionsSectionsMap}
  IN IF bad = {} THEN NoErr
     ELSE <<"report option unavailable",
            ToLower(pdfOptions[CHOOSE i \in bad : \A j \in bad : i <= j])>>

defaultSbomOption == "CycloneDxJson"
sbomOptionsStringMap == {"cyclonedxjson", "cyclonedxxml", "spdxjson"}

validateSbomOptions(sbomOption) ==
  IF ToLower(sbomOption) \in sbomOptionsStringMap THEN NoErr
  ELSE <<"invalid SBOM option", ToLower(sbomOption)>>

\* The regular expression of validateEmails, on the addresses of the model.
emailMatches(email) == email \in {"dev@cx.io", "qa@cx.io"}

\* Variant: only the first address of the list is checked.
validateEmails_FirstOnly(emails) ==
  IF emailMatches(TrimSpace(emails[1])) THEN NoErr
  ELSE <<"report not sent, invalid email address", TrimSpace(emails[1])>>

validateEmails(emails) ==
  LET bad == {i \in 1..Len(emails) : ~emailMatches(TrimSpace(emails[i]))}
  IN IF bad = {} THEN NoErr
     ELSE <<"report not sent, invalid email address",
            TrimSpace(emails[CHOOSE i \in bad : \A j \in bad : i <= j])>>

(***************************************************************************)
(* Enrichment of the dependency findings (addPackageInformation).          *)
(* A score is a number of hundredths.  A package of the table is a record  *)
(*   [ID, Locations, DependencyPathArray, SupportsQuickFix,                *)
(*    IsDirectDependency, FixLink, TypeOfDependency]                       *)
(* and an element of a dependency path a record                            *)
(*   [ID, Locations, SupportsQuickFix].                                    *)
(* The package attached to a finding is <<>> (nil) or <<package>>.         *)
(***************************************************************************)
directDependencyType == "Direct Dependency"
indirectDependencyType == "Transitive Dependency"

\* util.RoundFloat(score, 1): to one decimal place.
RoundFloat(score) == ((score + 5) \div 10) * 10

\* util.IsPackageFileSupported, on the file names of the model.
IsPackageFileSupported(file) == file \in {"package.json", "pom.xml"}

LastIndex(S) == CHOOSE m \in S : \A k \in S : k <= m

\* buildAuxiliaryScaMaps: locationsByID[id], empty when no package has the ID.
locationsByID(scaPackageModel, id) ==
  LET S == {k \in 1..Len(scaPackageModel) : scaPackageModel[k].ID = id} IN
  IF S = {} THEN <<>> ELSE scaPackageModel[LastIndex(S)].Locations

\* buildAuxiliaryScaMaps: typesByCVE[id] as <<entry>>, <<>> when there is none.
typesByCVE(scaTypeModel, id) ==
  LET S == {k \in 1..Len(scaTypeModel) : scaTypeModel[k].ID = id} IN
  IF S = {} THEN <<>> ELSE <<scaTypeModel[LastIndex(S)]>>

buildScaType(scaTypeModel, result) ==
  LET types == typesByCVE(scaTypeModel, result.ID) IN
  IF types # <<>> /\ types[1].Type = "SupplyChain" THEN "Supply Chain" ELSE "Vulnerability"

\* Variant: the state the finding was fetched with is kept.
buildScaState_Keep(scaTypeModel, result) == result.State

buildScaState(scaTypeModel, result) ==
  LET types == typesByCVE(scaTypeModel, result.ID) IN
  IF types # <<>> /\ types[1].IsIgnored THEN notExploitable ELSE result.State

\* Variant: the locations are added to those the head already has, and the flag
\* is computed over all of them.
enrichHead_Accumulate(head, pathLen, locations) ==
  [head EXCEPT
     !.Locations = head.Locations \o locations,
     !.SupportsQuickFix =
        /\ pathLen = 1
        /\ \A i \in 1..Len(head.Locations \o locations) :
             IsPackageFileSupported((head.Locations \o locations)[i])]

\* The head of a dependency path (lines 1728-1734).
enrichHead(head, pathLen, locations) ==
  [head EXCEPT
     !.Locations = locations,
     !.SupportsQuickFix =
        /\ pathLen = 1
        /\ \A i \in 1..Len(locations) : IsPackageFileSupported(locations[i])]

\* The dependency paths of a package after the loop of lines 1727-1736: the
\* head of each path is written in place.
enrichPaths(package, scaPackageModel) ==
  [k \in 1..Len(package.DependencyPathArray) |->
     LET dependencyPath == package.DependencyPathArray[k] IN
     [dependencyPath EXCEPT
        ![1] = enrichHead(dependencyPath[1], Len(dependencyPath),
                          locationsByID(scaPackageModel, dependencyPath[1].ID))]]

\* currentPackage as it is attached to the finding (lines 1725-1748).
enrichPackage(package, scaPackageModel, result) ==
  LET paths == enrichPaths(package, scaPackageModel) IN
  [package EXCEPT
     !.DependencyPathArray = paths,
     !.SupportsQuickFix =
        package.SupportsQuickFix \/ \E k \in 1..Len(paths) : paths[k][1].SupportsQuickFix,
     !.FixLink = IF result.CveName # ""
                   THEN <<"https://devhub.checkmarx.com/cve-details/", result.CveName>>
                   ELSE <<>>,
     !.TypeOfDependency = IF package.IsDirectDependency
                            THEN directDependencyType
                            ELSE indirectDependencyType]

\* One iteration of the loop over resultsModel.Results (lines 1713-1752); the
\* value is the finding and the package table after it.
enrichResult(result, scaPackageModel, scaTypeModel) ==
  IF result.Type # ScaType
    THEN [result |-> result, packages |-> scaPackageModel]
    ELSE
      LET scored == [result EXCEPT !.CvssScore = RoundFloat(@),
                                   !.ScaType = buildScaType(scaTypeModel, result)]
          stated == [scored EXCEPT !.State = buildScaState(scaTypeModel, scored)]
          S == {k \in 1..Len(scaPackageModel) :
                  scaPackageModel[k].ID = result.PackageIdentifier}
      IN IF S = {}
           THEN [result |-> stated, packages |-> scaPackageModel]
           ELSE
             LET k == CHOOSE m \in S : \A n \in S : m <= n
                 currentPackage == enrichPackage(scaPackageModel[k], scaPackageModel, stated)
             IN [result |-> [stated EXCEPT !.ScaPackageCollection = <<currentPackage>>],
                 packages |-> [scaPackageModel EXCEPT
                                 ![k].DependencyPathArray =
                                    currentPackage.DependencyPathArray]]

RECURSIVE addPackageInformationFrom(_, _, _, _)
\* The loop of addPackageInformation from finding i on.
addPackageInformationFrom(resultsModel, scaPackageModel, scaTypeModel, i) ==
  IF i > Len(resultsModel)
    THEN [results |-> resultsModel, packages |-> scaPackageModel]
    ELSE
      LET step == enrichResult(resultsModel[i], scaPackageModel, scaTypeModel) IN
      addPackageInformationFrom([resultsModel EXCEPT ![i] = step.result],
                                step.packages, scaTypeModel, i + 1)

\* Variant: the findings that are not of dependency type are dropped.
addPackageInformation_ScaOnly(resultsModel, scaPackageModel, scaTypeModel) ==
  addPackageInformationFrom(SelectSeq(resultsModel, LAMBDA r : r.Type = ScaType),
                            scaPackageModel, scaTypeModel, 1)

addPackageInformation(resultsModel, scaPackageModel, scaTypeModel) ==
  addPackageInformationFrom(resultsModel, scaPackageModel, scaTypeModel, 1)

\* enrichScaResults: the dependency findings are enriched when SCA is enabled.
enrichScaResults(scanInfo, resultsModel, scaPackageModel, scaTypeModel) ==
  IF contains(scanInfo.Engines, ScaType)
    THEN addPackageInformation(resultsModel, scaPackageModel, scaTypeModel)
    ELSE [results |-> resultsModel, packages |-> scaPackageModel]


(***************************************************************************)
(* The encoders of the findings documents (SARIF, Sonar, gl-sast).         *)
(* A finding carries, besides the fields above,                            *)
(*   QueryID: <<>> (nil) or <<q>>, q = [kind, text] a number or a string   *)
(*   QueryName, Nodes (records [FileName, Line, Column, Length]),          *)
(*   Filename, Line (the place of an infra-as-code finding).               *)
(* Line, Column and Length are unsigned.  Description and message texts of *)
(* the documents are left out.                                             *)
(***************************************************************************)
infoSonar == "INFO"
lowSonar == "MINOR"
mediumSonar == "MAJOR"
highSonar == "CRITICAL"
infoLowSarif == "note"
mediumSarif == "warning"
highSarif == "error"
vulnerabilitySonar == "VULNERABILITY"
infoCx == "INFO"
lowCx == "LOW"
mediumCx == "MEDIUM"
highCx == "HIGH"
sarifNodeFileLength == 2

\* len(s), on the file names of the model.
StrLen(s) ==
  CASE s = "" -> 0
    [] s = "/" -> 1
    [] s = "/src/a.go" -> 9
    [] s = "b.go" -> 4
    [] s = "/Dockerfile" -> 11

\* s[1:]
DropFirst(s) ==
  CASE s = "/" -> ""
    [] s = "/src/a.go" -> "src/a.go"
    [] s = "b.go" -> ".go"
    [] s = "/Dockerfile" -> "Dockerfile"
    [] OTHER -> s

\* strings.TrimLeft(s, "/")
TrimLeftSlash(s) ==
  CASE s = "/" -> ""
    [] s = "/src/a.go" -> "src/a.go"
    [] s = "/Dockerfile" -> "Dockerfile"
    [] OTHER -> s

\* strings.Replace(s, "/", "", 1)
RemoveFirstSlash(s) ==
  CASE s = "/" -> ""
    [] s = "/src/a.go" -> "srca.go"
    [] s = "/Dockerfile" -> "Dockerfile"
    [] OTHER -> s

\* strings.ReplaceAll(s, "_", " ")
UnderscoresToSpaces(s) ==
  CASE s = "SQL_Injection" -> "SQL Injection"
    [] s = "Missing_User" -> "Missing User"
    [] OTHER -> s

\* strings.Title(strings.ToLower(strings.ReplaceAll(s, "-", "")))
TitleOfID(s) ==
  CASE s = "cve1" -> "Cve1"
    [] s = "cve2" -> "Cve2"
    [] s = "CVE-2024-1" -> "Cve20241"
    [] OTHER -> s

\* cases.Title(language.English).String(s)
TitleCase(s) ==
  CASE s = "HIGH" -> "High"
    [] s = "MEDIUM" -> "Medium"
    [] s = "LOW" -> "Low"
    [] s = "INFO" -> "Info"
    [] s = "high" -> "High"
    [] OTHER -> s

\* strconv.FormatUint(n, 10), on the line numbers of the model.
FormatUint(n) ==
  CASE n = 0 -> "0"
    [] n = 3 -> "3"
    [] n = 5 -> "5"
    [] n = 7 -> "7"

\* fmt.Sprintf("%v", q) of a query id: a number and a string print alike.
FormatValue(q) == q.text

\* The three severity tables; a key that is not in a Go map gives "".
securities(severity) ==
  CASE severity = infoCx -> "3.5"
    [] severity = lowCx -> "6.5"
    [] severity = mediumCx -> "8.5"
    [] severity = highCx -> "9.5"
    [] OTHER -> ""

\* Variant: info is given the severity of low.
sonarSeverities_InfoAsLow(severity) ==
  CASE severity = infoCx -> lowSonar
    [] severity = lowCx -> lowSonar
    [] severity = mediumCx -> mediumSonar
    [] severity = highCx -> highSonar
    [] OTHER -> ""

sonarSeverities(severity) ==
  CASE severity = infoCx -> infoSonar
    [] severity = lowCx -> lowSonar
    [] severity = mediumCx -> mediumSonar
    [] severity = highCx -> highSonar
    [] OTHER -> ""

findSarifLevel(result) ==
  CASE result.Severity = infoCx -> infoLowSarif
    [] result.Severity = lowCx -> infoLowSarif
    [] result.Severity = mediumCx -> mediumSarif
    [] result.Severity = highCx -> highSarif
    [] OTHER -> ""

\* findRuleID: the rule identifier "<id> (<type>)" as the pair of its parts, the
\* rule name and the short message.
findRuleID(result) ==
  IF result.QueryID = <<>>
    THEN [ruleID |-> <<result.ID, result.Type>>,
          ruleName |-> TitleOfID(result.ID),
          shortMessage |-> <<result.PackageIdentifier, result.ID>>]
    ELSE [ruleID |-> <<FormatValue(result.QueryID[1]), result.Type>>,
          ruleName |-> UnderscoresToSpaces(result.QueryName),
          shortMessage |-> <<UnderscoresToSpaces(result.QueryName)>>]

findProperties(result) ==
  [ID |-> findRuleID(result).ruleID,
   Name |-> findRuleID(result).ruleName,
   SecuritySeverity |-> securities(result.Severity),
   Tags |-> <<"security", "checkmarx", result.Type>>]

\* The rule entry findRule builds for a finding.
sarifRuleOf(result) ==
  [ID |-> findRuleID(result).ruleID,
   Name |-> findRuleID(result).ruleName,
   Properties |-> findProperties(result)]

\* Variant: a rule entry is returned for every finding.
findRule_NoDedup(ruleIds, result) == <<sarifRuleOf(result)>>

\* findRule: <<rule>> for an identifier not yet in ruleIds, <<>> (nil) otherwise.
findRule(ruleIds, result) ==
  IF sarifRuleOf(result).ID \notin ruleIds THEN <<sarifRuleOf(result)>> ELSE <<>>

initSarifResult(result) ==
  [RuleID |-> findRuleID(result).ruleID,
   Message |-> findRuleID(result).shortMessage,
   Level |-> findSarifLevel(result),
   Locations |-> <<>>]

sarifLocation(uri, startLine, startColumn, endColumn) ==
  [URI |-> uri, StartLine |-> startLine, StartColumn |-> startColumn,
   EndColumn |-> endColumn]

RECURSIVE sarifNodeLocations(_, _)
\* The loop of parseSarifResultSast over the nodes from node k on.
sarifNodeLocations(nodes, k) ==
  IF k > Len(nodes) THEN <<>>
  ELSE IF StrLen(nodes[k].FileName) >= sarifNodeFileLength /\ nodes[k].Line > 0
    THEN <<sarifLocation(DropFirst(nodes[k].FileName), nodes[k].Line, nodes[k].Column,
                         nodes[k].Column + nodes[k].Length)>>
         \o sarifNodeLocations(nodes, k + 1)
  ELSE sarifNodeLocations(nodes, k + 1)

parseSarifResultSast(result) ==
  <<[initSarifResult(result) EXCEPT !.Locations = sarifNodeLocations(result.Nodes, 1)]>>

parseSarifResultKics(result) ==
  <<[initSarifResult(result) EXCEPT
       !.Locations = <<sarifLocation(RemoveFirstSlash(result.Filename), result.Line, 1, 2)>>]>>

\* The locations of the package attached to a dependency finding.
packageLocations(result) ==
  IF result.ScaPackageCollection = <<>> THEN <<>>
  ELSE result.ScaPackageCollection[1].Locations

parseSarifResultsSca(result) ==
  [k \in 1..Len(packageLocations(result)) |->
     [initSarifResult(result) EXCEPT
        !.Locations = <<sarifLocation(packageLocations(result)[k], 1, 1, 2)>>]]

findResult(result) ==
  IF Len(result.Nodes) > 0 THEN parseSarifResultSast(result)
  ELSE IF result.Type = KicsType THEN parseSarifResultKics(result)
  ELSE IF result.Type = ScaType THEN parseSarifResultsSca(result)
  ELSE <<>>

RECURSIVE parseResultsFrom(_, _, _, _, _)
\* The loop of parseResults from finding i on.
parseResultsFrom(rs, i, ruleIds, sarifRules, sarifResults) ==
  IF i > Len(rs) THEN [Rules |-> sarifRules, Results |-> sarifResults]
  ELSE parseResultsFrom(rs, i + 1, ruleIds \cup {sarifRuleOf(rs[i]).ID},
                        sarifRules \o findRule(ruleIds, rs[i]),
                        sarifResults \o findResult(rs[i]))

parseResults(rs) == parseResultsFrom(rs, 1, {}, <<>>, <<>>)

\* convertCxResultsToSarif: one run, its rules and results.
convertCxResultsToSarif(rs) ==
  [kind |-> FormatSarif, Version |-> "2.1.0",
   Rules |-> parseResults(rs).Rules, Results |-> parseResults(rs).Results]

sonarTextRange(startLine, endLine, startColumn, endColumn) ==
  [StartLine |-> startLine, EndLine |-> endLine, StartColumn |-> startColumn,
   EndColumn |-> endColumn]

sonarLocation(filePath, message, textRange) ==
  [FilePath |-> filePath, Message |-> message, TextRange |-> textRange]

\* The zero value of a location.
NoSonarLocation == sonarLocation("", <<>>, sonarTextRange(0, 0, 0, 0))

\* Variant: an empty column range is left as it is.
parseSonarTextRange_NoWiden(node) ==
  sonarTextRange(node.Line, 0, node.Column, node.Column + node.Length)

parseSonarTextRange(node) ==
  sonarTextRange(node.Line, 0, node.Column,
                 IF node.Column = node.Column + node.Length
                   THEN node.Column + node.Length + 1
                   ELSE node.Column + node.Length)

initSonarIssue(result) ==
  [Severity |-> sonarSeverities(result.Severity), Type |-> vulnerabilitySonar,
   EngineID |-> result.Type, RuleID |-> result.ID, EffortMinutes |-> 0,
   PrimaryLocation |-> NoSonarLocation, SecondaryLocations |-> <<>>]

parseSonarPrimaryLocation(result) ==
  IF Len(result.Nodes) > 0
    THEN sonarLocation(TrimLeftSlash(result.Nodes[1].FileName),
                       <<UnderscoresToSpaces(result.QueryName)>>,
                       parseSonarTextRange(result.Nodes[1]))
    ELSE NoSonarLocation

parseSonarSecondaryLocations(result) ==
  IF Len(result.Nodes) >= 1
    THEN [k \in 1..(Len(result.Nodes) - 1) |->
            sonarLocation(TrimLeftSlash(result.Nodes[k + 1].FileName),
                          <<UnderscoresToSpaces(result.QueryName)>>,
                          parseSonarTextRange(result.Nodes[k + 1]))]
    ELSE <<>>

parseLocationKics(result) ==
  sonarLocation(TrimLeftSlash(result.Filename), <<"value">>,
                sonarTextRange(result.Line, 0, 0, 1))

parseScaSonarLocations(result) ==
  [k \in 1..Len(packageLocations(result)) |->
     [initSonarIssue(result) EXCEPT
        !.PrimaryLocation = sonarLocation(packageLocations(result)[k],
                                          findRuleID(result).shortMessage,
                                          sonarTextRange(1, 2, 1, 2))]]

\* The issues parseResultsSonar appends for one finding.
sonarIssuesOf(result) ==
  LET engineType == TrimSpace(result.Type) IN
  IF engineType = SastType
    THEN <<[initSonarIssue(result) EXCEPT
              !.PrimaryLocation = parseSonarPrimaryLocation(result),
              !.SecondaryLocations = parseSonarSecondaryLocations(result)]>>
  ELSE IF engineType = KicsType
    THEN <<[initSonarIssue(result) EXCEPT !.PrimaryLocation = parseLocationKics(result)]>>
  ELSE IF engineType = ScaType THEN parseScaSonarLocations(result)
  ELSE <<>>

RECURSIVE parseResultsSonarFrom(_, _)
\* The loop of parseResultsSonar from finding i on.
parseResultsSonarFrom(rs, i) ==
  IF i > Len(rs) THEN <<>> ELSE sonarIssuesOf(rs[i]) \o parseResultsSonarFrom(rs, i + 1)

parseResultsSonar(rs) == parseResultsSonarFrom(rs, 1)

convertCxResultsToSonar(rs) == [kind |-> FormatSonar, Results |-> parseResultsSonar(rs)]

\* The vulnerability parseGlSastVulnerability appends; the finding has a node.
parseGlSastVulnerability(result) ==
  LET queryName == result.QueryName
      fileName == result.Nodes[1].FileName
      lineNumber == FormatUint(result.Nodes[1].Line)
      startLine == result.Nodes[1].Line
      endLine == result.Nodes[1].Line + result.Nodes[1].Length
  IN [ID |-> <<queryName, fileName, lineNumber>>,
      Category |-> <<"Checkmarx", result.Type>>,
      Name |-> queryName,
      Severity |-> TitleCase(result.Severity),
      Identifiers |-> <<[Type |-> "cxOneScan", Value |-> result.ID]>>,
      Tracking |-> [Type |-> "source",
                    Items |-> <<[File |-> fileName, EndLine |-> endLine,
                                 StartLine |-> startLine]>>],
      Location |-> [File |-> fileName, StartLine |-> startLine, EndLine |-> endLine]]

\* Nodes[0] of a static-analysis finding that has no node: the index is out of
\* range and the process panics.
glSastPanics(rs) ==
  \E i \in 1..Len(rs) : TrimSpace(rs[i].Type) = SastType /\ Len(rs[i].Nodes) = 0

RECURSIVE convertCxResultToGlVulnerabilityFrom(_, _)
\* The loop of convertCxResultToGlVulnerability from finding i on.
convertCxResultToGlVulnerabilityFrom(rs, i) ==
  IF i > Len(rs) THEN <<>>
  ELSE IF TrimSpace(rs[i].Type) = SastType
    THEN <<parseGlSastVulnerability(rs[i])>> \o convertCxResultToGlVulnerabilityFrom(rs, i + 1)
  ELSE convertCxResultToGlVulnerabilityFrom(rs, i + 1)

convertCxResultToGlVulnerability(rs) ==
  [kind |-> FormatGL, Version |-> "15.0.0",
   Vulnerabilities |-> convertCxResultToGlVulnerabilityFrom(rs, 1)]

\* The document exportJSONResults writes: the result set as it is.
jsonResults(rs) == [kind |-> FormatJSON, Results |-> rs]

\* No findings document.
NoDocument == [kind |-> "none"]


(***************************************************************************)
(* The asynchronous job of the current format (exportPdfResults,           *)
(* exportSbomResults): kind, position in the function, pollingResp status, *)
(* and the calls made to the wrapper so far.  hist holds the last MaxHist  *)
(* statuses fetched; fetches saturates at MaxHist + 1.                     *)
(***************************************************************************)
NoJob ==
  [kind |-> "none", pc |-> "idle", status |-> "", email |-> FALSE, i |-> 0,
   target |-> "", submits |-> 0, fetches |-> 0, downloads |-> 0,
   hist |-> <<>>, exit |-> ""]

newJob(kind, at, email, target) ==
  [NoJob EXCEPT !.kind = kind, !.pc = at, !.email = email, !.target = target]

\* Variant: each poller goes on for the first status of its pair only.
inProgress_FirstOnly(kind, status) ==
  IF kind = "pdf" THEN status = startedStatus ELSE status = exportingStatus

\* The loop conditions of the two pollers.
inProgress(kind, status) ==
  IF kind = "pdf"
    THEN status = startedStatus \/ status = requestedStatus
    ELSE status = exportingStatus \/ status = pendingStatus

\* Variant: every status but the other document's counts as success.
isCompleted_Lenient(kind, status) ==
  IF kind = "pdf"
    THEN status # exportingStatus /\ status # pendingStatus
    ELSE status # startedStatus /\ status # requestedStatus

\* The success test after the loop.
isCompleted(kind, status) ==
  IF kind = "pdf"
    THEN status = completedStatus
    ELSE EqualFold(status, completedStatus)

initialStatus(kind) == IF kind = "pdf" THEN startedStatus ELSE exportingStatus

(***************************************************************************)
(* createReport: the result of one call, as a record                       *)
(*   kind = "return": the call returned err, having written file (or "")   *)
(*   kind = "job":    the call goes on in exportPdfResults/exportSbomResults*)
(* summary is the Summary the caller holds after the call (the callee gets *)
(* a pointer to it).  io is the outcome of the output file operations.     *)
(***************************************************************************)
Returned(e, summary, file) ==
  [kind |-> "return", err |-> e, summary |-> summary, file |-> file, job |-> NoJob,
   doc |-> NoDocument]

Started(job, summary) ==
  [kind |-> "job", err |-> NoErr, summary |-> summary, file |-> "", job |-> job,
   doc |-> NoDocument]

\* The call wrote the findings document doc to file and returned nil.
Written(doc, summary, file) == [Returned(NoErr, summary, file) EXCEPT !.doc = doc]

\* The call did not return: the process panicked in it.
Panicked(summary) == [Returned(NoErr, summary, "") EXCEPT !.kind = "panic"]

\* exportJSONSummaryResults: serialize, create the file, write it.
exportToFile(targetFile, summary, io) ==
  IF io = "createFail"
    THEN Returned(<<"failed to create target file", targetFile>>, summary, "")
    ELSE Returned(NoErr, summary, targetFile)

\* exportSarifResults, exportSonarResults, exportJSONResults: the document is
\* serialized, the file created and written.
exportResults(targetFile, doc, summary, io) ==
  IF io = "createFail"
    THEN Returned(<<"failed to create target file", targetFile>>, summary, "")
    ELSE Written(doc, summary, targetFile)

\* exportGlSastResults: the scan block (its time stamp is the one
\* convertScanToResultsSummary formatted, so it parses), the vulnerabilities,
\* the file.
exportGlSastResults(targetFile, rs, summary, io) ==
  IF glSastPanics(rs) THEN Panicked(summary)
  ELSE exportResults(targetFile, convertCxResultToGlVulnerability(rs), summary, io)

writeHTMLSummary(targetFile, summary, io) ==
  IF io = "templateFail" THEN Returned(NoErr, summary, "")
  ELSE IF io = "createFail" THEN Returned(<<"create", targetFile>>, summary, "")
  ELSE Returned(NoErr, summary, targetFile)

writeMarkdownSummary(targetFile, summary, io) ==
  IF io = "templateFail" THEN Returned(<<"template", targetFile>>, summary, "")
  ELSE IF io = "createFail" THEN Returned(<<"create", targetFile>>, summary, "")
  ELSE IF io = "executeFail" THEN Returned(<<"execute", targetFile>>, summary, targetFile)
  ELSE Returned(NoErr, summary, targetFile)

\* exportPdfResults up to the submission call.
exportPdfStart(summary, summaryRpt, a) ==
  IF parsePDFOptions(a.formatPdfOptions) # NoErr
    THEN Returned(parsePDFOptions(a.formatPdfOptions), summary, "")
  ELSE IF Len(a.formatPdfToEmail) > 0 /\ validateEmails(a.formatPdfToEmail) # NoErr
    THEN Returned(validateEmails(a.formatPdfToEmail), summary, "")
  ELSE Started(newJob("pdf", "submit", Len(a.formatPdfToEmail) > 0, summaryRpt), summary)

\* exportSbomResults up to the first wrapper call.
exportSbomStart(summary, targetFile, a) ==
  IF /\ a.formatSbomOptions # ""
     /\ a.formatSbomOptions # defaultSbomOption
     /\ validateSbomOptions(a.formatSbomOptions) # NoErr
    THEN Returned(validateSbomOptions(a.formatSbomOptions), summary, "")
  ELSE IF a.useSCALocalFlow
    THEN Started(newJob("sbom", "submit", FALSE, targetFile), summary)
  ELSE Started(newJob("proxy", "proxy", FALSE, targetFile), summary)

sbomTargetName(formatSbomOptions) ==
  IF ToLower(formatSbomOptions) = "cyclonedxxml"
    THEN "cx_result_sbom.xml"
    ELSE "cx_result_sbom.json"

createReport(format, rs, summary, a, io) ==
  IF IsFormat(format, FormatSarif) /\ isValidScanStatus(summary.Status)
    THEN exportResults("cx_result.sarif", convertCxResultsToSarif(rs), summary, io)
  ELSE IF IsFormat(format, FormatSonar) /\ isValidScanStatus(summary.Status)
    THEN exportResults("cx_result_sonar.json", convertCxResultsToSonar(rs), summary, io)
  ELSE IF IsFormat(format, FormatJSON) /\ isValidScanStatus(summary.Status)
    THEN exportResults("cx_result.json", jsonResults(rs), summary, io)
  ELSE IF IsFormat(format, FormatGL)
    THEN exportGlSastResults("cx_result.gl-sast-report.json", rs, summary, io)
  ELSE IF IsFormat(format, FormatSummaryConsole)
    THEN Returned(NoErr, summary, "")
  ELSE IF IsFormat(format, FormatSummary)
    THEN writeHTMLSummary("cx_result.html", convertNotAvailableNumberToZero(summary), io)
  ELSE IF IsFormat(format, FormatSummaryJSON)
    THEN exportToFile("cx_result.json", convertNotAvailableNumberToZero(summary), io)
  ELSE IF IsFormat(format, FormatPDF) /\ isValidScanStatus(summary.Status)
    THEN exportPdfStart(summary, "cx_result.pdf", a)
  ELSE IF IsFormat(format, FormatSummaryMarkdown)
    THEN writeMarkdownSummary("cx_result.md", convertNotAvailableNumberToZero(summary), io)
  ELSE IF IsFormat(format, FormatSbom) /\ isValidScanStatus(summary.Status)
    THEN LET coerced == convertNotAvailableNumberToZero(summary) IN
         IF ~contains(coerced.EnginesEnabled, ScaType)
           THEN Returned(<<"unable to generate report - SCA engine must be enabled on scan summary",
                           FormatSbom>>, coerced, "")
         ELSE IF coerced.ScaIssues = notAvailableNumber
           THEN Returned(<<"unable to generate report - SCA engine did not complete successfully",
                           FormatSbom>>, coerced, "")
         ELSE exportSbomStart(coerced, sbomTargetName(a.formatSbomOptions), a)
  ELSE Returned(<<"bad report format", format>>, summary, "")

\* The outcomes of the file operations a format performs.
FormatOutcomes(format) ==
  IF IsFormat(format, FormatSummary) THEN {"ok", "createFail", "templateFail"}
  ELSE IF IsFormat(format, FormatSummaryMarkdown)
    THEN {"ok", "createFail", "templateFail", "executeFail"}
  ELSE IF \E f \in {FormatSarif, FormatSonar, FormatJSON, FormatGL, FormatSummaryJSON} :
            IsFormat(format, f)
    THEN {"ok", "createFail"}
  ELSE {"ok"}


(***************************************************************************)
(* State of one CreateScanReport invocation.                               *)
(*   scan, args, wrapperResults: the inputs (scan metadata, the flags, the *)
(*     result set ReadResults returns)                                     *)
(*   pc: position in CreateScanReport; results, summary: its locals        *)
(*   idx: position of the count pass; fmtIdx: position in reportList       *)
(*   err: the error returned; summaryBuilt: summaryReport has returned     *)
(*   log: the createReport calls made so far, with what each returned      *)
(*   files: the files written, each with the position of its last writer  *)
(*   job: the asynchronous job of the current format                       *)
(*   document: the findings document last written (SARIF, Sonar, JSON,     *)
(*     gl-sast)                                                            *)
(* pc is "panicked" when the process has died in an encoder.               *)
(***************************************************************************)
VARIABLES scan, args, wrapperResults, scaPackageModel, scaTypeModel, pc, results,
          summary, idx, fmtIdx, err, summaryBuilt, log, files, job, document

inputs == <<scan, args, wrapperResults, scaPackageModel, scaTypeModel>>
vars == <<scan, args, wrapperResults, scaPackageModel, scaTypeModel, pc, results,
          summary, idx, fmtIdx, err, summaryBuilt, log, files, job, document>>

scanPending == isScanPending(summary.Status)
isSummaryNeeded == verifyFormatsByReportList(args.reportList, summaryFormats)

writeFile(fs, name, pos) ==
  IF name = "" THEN fs ELSE {f \in fs : f[1] # name} \cup {<<name, pos>>}

\* CreateScanReport, lines 707-717: the provisional Summary, the output directory.
ConvertScan ==
  /\ pc = "start"
  /\ \E o \in {"ok", "urlErr", "mkdirErr"} :
       IF o = "urlErr"
         THEN /\ pc' = "done"
              /\ err' = <<"GetResultsURL">>
              /\ UNCHANGED summary
         ELSE /\ summary' = convertScanToResultsSummary(scan)
              /\ pc' = IF o = "ok" THEN "read" ELSE "done"
              /\ err' = IF o = "ok" THEN NoErr ELSE <<"Mkdir">>
  /\ UNCHANGED <<inputs, document, results, idx, fmtIdx, summaryBuilt, log, files, job>>

\* CreateScanReport, lines 718-723: ReadResults unless the scan is pending; the
\* results the wrapper returns are enriched from the package and type tables.
ReadResultsStep ==
  /\ pc = "read"
  /\ \E o \in {"ok", "err"} :
       LET enriched == enrichScaResults(scan, wrapperResults, scaPackageModel, scaTypeModel)
       IN
       IF scanPending
         THEN pc' = "summary" /\ UNCHANGED <<results, err, scaPackageModel>>
       ELSE IF o = "ok"
         THEN /\ pc' = "summary"
              /\ results' = enriched.results
              /\ scaPackageModel' = enriched.packages
              /\ UNCHANGED err
       ELSE /\ pc' = "done"
            /\ err' = <<"Failed listing results">>
            /\ UNCHANGED <<results, scaPackageModel>>
  /\ UNCHANGED <<scan, args, wrapperResults, scaTypeModel, summary, idx, fmtIdx,
                 summaryBuilt, log, files, job, document>>

\* Variant: the Summary Builder runs whatever the formats and the scan status.
BeginSummary_Always ==
  /\ pc = "summary"
  /\ \E api \in {"ok", "err"} :
       IF api = "ok"
         THEN pc' = "count" /\ idx' = 1 /\ UNCHANGED err
         ELSE pc' = "done" /\ err' = <<"Failed listing results">> /\ UNCHANGED idx
  /\ UNCHANGED <<inputs, document, results, summary, fmtIdx, summaryBuilt, log, files, job>>

\* CreateScanReport, lines 724-726 and summaryReport, lines 406-416.
BeginSummary ==
  /\ pc = "summary"
  /\ \E api \in {"ok", "err"} :
       IF ~(isSummaryNeeded /\ ~scanPending)
         THEN pc' = "loop" /\ UNCHANGED <<idx, err>>
       ELSE IF api = "ok"
         THEN pc' = "count" /\ idx' = 1 /\ UNCHANGED err
       ELSE pc' = "done" /\ err' = <<"Failed listing results">> /\ UNCHANGED idx
  /\ UNCHANGED <<inputs, document, results, summary, fmtIdx, summaryBuilt, log, files, job>>

\* enhanceWithScanSummary, one iteration of the loop over results.Results.
CountResult ==
  /\ pc = "count"
  /\ idx <= Len(results)
  /\ summary' = countResult(summary, results[idx])
  /\ idx' = idx + 1
  /\ UNCHANGED <<inputs, document, pc, results, fmtIdx, err, summaryBuilt, log, files, job>>

\* enhanceWithScanSummary, line 453, and summaryReport, lines 420-425.
FinishSummary ==
  /\ pc = "count"
  /\ idx > Len(results)
  /\ summary' = finishSummary(sumTotalIssues(summary))
  /\ summaryBuilt' = TRUE
  /\ pc' = "loop"
  /\ UNCHANGED <<inputs, document, results, idx, fmtIdx, err, log, files, job>>

\* Variant: the loop goes on to the next format after an error.
ReturnToLoop_Continue(e, file) ==
  /\ log' = Append(log, [format |-> args.reportList[fmtIdx], err |-> e, file |-> file])
  /\ pc' = "loop"
  /\ fmtIdx' = fmtIdx + 1
  /\ UNCHANGED err

\* createReport returns e to the loop of CreateScanReport (lines 731-737).
ReturnToLoop(e, file) ==
  /\ log' = Append(log, [format |-> args.reportList[fmtIdx], err |-> e, file |-> file])
  /\ IF e = NoErr
       THEN pc' = "loop" /\ fmtIdx' = fmtIdx + 1 /\ UNCHANGED err
       ELSE pc' = "done" /\ err' = e /\ UNCHANGED fmtIdx

\* One iteration of the loop over reportList: createReport for the format.
CreateReport ==
  /\ pc = "loop"
  /\ fmtIdx <= Len(args.reportList)
  /\ \E io \in FormatOutcomes(args.reportList[fmtIdx]) :
       LET r == createReport(args.reportList[fmtIdx], results, summary, args, io) IN
       /\ summary' = r.summary
       /\ IF r.kind = "return"
            THEN /\ ReturnToLoop(r.err, r.file)
                 /\ files' = writeFile(files, r.file, fmtIdx)
                 /\ document' = IF r.doc = NoDocument THEN document ELSE r.doc
                 /\ UNCHANGED job
            ELSE IF r.kind = "panic"
              THEN /\ pc' = "panicked"
                   /\ UNCHANGED <<fmtIdx, err, log, files, job, document>>
            ELSE /\ pc' = "job"
                 /\ job' = r.job
                 /\ UNCHANGED <<fmtIdx, err, log, files, document>>
  /\ UNCHANGED <<inputs, results, idx, summaryBuilt>>

\* CreateScanReport, line 738.
LoopDone ==
  /\ pc = "loop"
  /\ fmtIdx > Len(args.reportList)
  /\ pc' = "done"
  /\ err' = NoErr
  /\ UNCHANGED <<inputs, document, results, summary, idx, fmtIdx, summaryBuilt, log, files, job>>

(***************************************************************************)
(* The asynchronous jobs.                                                  *)
(***************************************************************************)
StatusSet ==
  {startedStatus, requestedStatus, exportingStatus, pendingStatus,
   completedStatus, "Completed", "SomeOtherStatus"}

SubmitOutcomes(kind) == IF kind = "pdf" THEN {"ok", "webErr", "err"} ELSE {"ok", "err"}
FetchFailures(kind) == IF kind = "pdf" THEN {"webErr", "err"} ELSE {"err"}

jobEnds(exit) == [job EXCEPT !.pc = "ended", !.exit = exit]

\* GeneratePdfReport (lines 1185-1197) / GenerateSbomReport (lines 1114-1120).
JobSubmit ==
  /\ pc = "job"
  /\ job.pc = "submit"
  /\ \E o \in SubmitOutcomes(job.kind) :
       LET called == [job EXCEPT !.submits = @ + 1] IN
       IF o # "ok"
         THEN /\ job' = [called EXCEPT !.pc = "ended", !.exit = "submitFailed"]
              /\ ReturnToLoop(<<"Error generating report", o>>, "")
       ELSE IF job.email
         THEN /\ job' = [called EXCEPT !.pc = "ended", !.exit = "emailed"]
              /\ ReturnToLoop(NoErr, "")
       ELSE /\ job' = [called EXCEPT !.pc = "poll", !.status = initialStatus(job.kind)]
            /\ UNCHANGED <<pc, fmtIdx, err, log>>
  /\ UNCHANGED <<inputs, document, results, summary, idx, summaryBuilt, files>>

pushHist(hist, s) ==
  IF Len(hist) < MaxHist THEN Append(hist, s) ELSE Append(Tail(hist), s)

countFetch(n) == IF n <= MaxHist THEN n + 1 ELSE n

\* errors.Wrapf(err, "%v", webErr) of line 1201: nil when err is nil.
pdfFetchError(o) == IF o = "err" THEN <<"status fetch failed", o>> ELSE NoErr

\* Variant: the loop gives up after MaxHist fetches.
JobFetch_Capped ==
  /\ pc = "job"
  /\ job.pc = "poll"
  /\ job.fetches < MaxHist
  /\ inProgress(job.kind, job.status)
  /\ \E o \in StatusSet \cup FetchFailures(job.kind) :
       LET called == [job EXCEPT !.fetches = countFetch(@)] IN
       IF o \in FetchFailures(job.kind)
         THEN /\ job' = [called EXCEPT !.pc = "ended", !.exit = "fetchFailed"]
              /\ ReturnToLoop(IF job.kind = "pdf" THEN pdfFetchError(o)
                              ELSE <<"failed getting SBOM report status">>, "")
         ELSE /\ job' = [called EXCEPT !.status = o, !.hist = pushHist(@, o)]
              /\ UNCHANGED <<pc, fmtIdx, err, log>>
  /\ UNCHANGED <<inputs, document, results, summary, idx, summaryBuilt, files>>

\* One iteration of the polling loop: CheckPdfReportStatus (lines 1198-1205) /
\* GetSbomReportStatus (lines 1121-1127).
JobFetch ==
  /\ pc = "job"
  /\ job.pc = "poll"
  /\ inProgress(job.kind, job.status)
  /\ \E o \in StatusSet \cup FetchFailures(job.kind) :
       LET called == [job EXCEPT !.fetches = countFetch(@)] IN
       IF o \in FetchFailures(job.kind)
         THEN /\ job' = [called EXCEPT !.pc = "ended", !.exit = "fetchFailed"]
              /\ ReturnToLoop(IF job.kind = "pdf" THEN pdfFetchError(o)
                              ELSE <<"failed getting SBOM report status">>, "")
         ELSE /\ job' = [called EXCEPT !.status = o, !.hist = pushHist(@, o)]
              /\ UNCHANGED <<pc, fmtIdx, err, log>>
  /\ UNCHANGED <<inputs, document, results, summary, idx, summaryBuilt, files>>

\* After the loop: the status test and the download (lines 1206-1213, 1128-1135).
JobConclude ==
  /\ pc = "job"
  /\ job.pc = "poll"
  /\ ~inProgress(job.kind, job.status)
  /\ \E dl \in {"ok", "err"} :
       IF ~isCompleted(job.kind, job.status)
         THEN /\ job' = jobEnds("status")
              /\ ReturnToLoop(<<"generating failed - Current status: ", job.status>>, "")
              /\ UNCHANGED files
       ELSE IF dl = "err"
         THEN /\ job' = [jobEnds("downloadFailed") EXCEPT !.downloads = @ + 1]
              /\ ReturnToLoop(<<"Failed downloading report">>, "")
              /\ UNCHANGED files
       ELSE /\ job' = [jobEnds("downloaded") EXCEPT !.downloads = @ + 1]
            /\ ReturnToLoop(NoErr, job.target)
            /\ files' = writeFile(files, job.target, fmtIdx)
  /\ UNCHANGED <<inputs, document, results, summary, idx, summaryBuilt>>

\* Variant: the loop makes one call more than retrySBOM allows.
ProxyStep_OneMore ==
  /\ pc = "job"
  /\ job.pc = "proxy"
  /\ \E o \in {"err", "completed", "incomplete"} :
       IF ~(job.i <= args.retrySBOM)
         THEN /\ job' = jobEnds("exhausted")
              /\ ReturnToLoop(NoErr, "")
              /\ UNCHANGED files
       ELSE IF o = "err"
         THEN /\ job' = [jobEnds("submitFailed") EXCEPT !.submits = @ + 1]
              /\ ReturnToLoop(<<"GenerateSbomReportWithProxy">>, "")
              /\ UNCHANGED files
       ELSE IF o = "completed"
         THEN /\ job' = [jobEnds("completed") EXCEPT !.submits = @ + 1]
              /\ ReturnToLoop(NoErr, job.target)
              /\ files' = writeFile(files, job.target, fmtIdx)
       ELSE /\ job' = [job EXCEPT !.submits = @ + 1, !.i = @ + 1]
            /\ UNCHANGED <<pc, fmtIdx, err, log, files>>
  /\ UNCHANGED <<inputs, document, results, summary, idx, summaryBuilt>>

\* The SBOM proxy loop (lines 1139-1157): one test of i < retrySBOM.
ProxyStep ==
  /\ pc = "job"
  /\ job.pc = "proxy"
  /\ \E o \in {"err", "completed", "incomplete"} :
       IF ~(job.i < args.retrySBOM)
         THEN /\ job' = jobEnds("exhausted")
              /\ ReturnToLoop(NoErr, "")
              /\ UNCHANGED files
       ELSE IF o = "err"
         THEN /\ job' = [jobEnds("submitFailed") EXCEPT !.submits = @ + 1]
              /\ ReturnToLoop(<<"GenerateSbomReportWithProxy">>, "")
              /\ UNCHANGED files
       ELSE IF o = "completed"
         THEN /\ job' = [jobEnds("completed") EXCEPT !.submits = @ + 1]
              /\ ReturnToLoop(NoErr, job.target)
              /\ files' = writeFile(files, job.target, fmtIdx)
       ELSE /\ job' = [job EXCEPT !.submits = @ + 1, !.i = @ + 1]
            /\ UNCHANGED <<pc, fmtIdx, err, log, files>>
  /\ UNCHANGED <<inputs, document, results, summary, idx, summaryBuilt>>

Next ==
  \/ ConvertScan
  \/ ReadResultsStep
  \/ BeginSummary
  \/ CountResult
  \/ FinishSummary
  \/ CreateReport
  \/ LoopDone
  \/ JobSubmit
  \/ JobFetch
  \/ JobConclude
  \/ ProxyStep


(***************************************************************************)
(* Inputs of the specifications.                                           *)
(***************************************************************************)
SeqsUpTo(S, lo, hi) == UNION {[1..n -> S] : n \in lo..hi}

HasFormat(list, format) == \E i \in 1..Len(list) : IsFormat(list[i], format)

AllFormats ==
  {FormatSarif, FormatSonar, FormatJSON, FormatGL, FormatSummaryConsole, FormatSummary,
   FormatSummaryJSON, FormatPDF, FormatSummaryMarkdown, FormatSbom, "csv"}

DefaultPdfOptions == <<"ScanSummary", "ExecutiveSummary", "ScanResults">>
LocalFlow == [local |-> TRUE, retry |-> 0]
ProxyFlows == {[local |-> FALSE, retry |-> n] : n \in (-1)..MaxRetry}

\* The flags of an invocation; those of a format that is not requested are left
\* at their defaults.
ArgSets(Lists, Emails, PdfOpts, SbomOpts, Flows) ==
  {[reportList |-> l, formatPdfToEmail |-> e, formatPdfOptions |-> po,
    formatSbomOptions |-> so, useSCALocalFlow |-> fl.local, retrySBOM |-> fl.retry] :
     <<l, e, po, so, fl>> \in
       {t \in Lists \X Emails \X PdfOpts \X SbomOpts \X Flows :
          /\ HasFormat(t[1], FormatPDF) \/ (t[2] = <<>> /\ t[3] = DefaultPdfOptions)
          /\ HasFormat(t[1], FormatSbom) \/ (t[4] = defaultSbomOption /\ t[5] = LocalFlow)}}

AllCompleted == [e \in Engines |-> "Completed"]

ScanSets(Statuses, EngineSets, Details) ==
  {[Status |-> st, Engines |-> en, StatusDetails |-> sd] :
     st \in Statuses, en \in EngineSets, sd \in Details}

\* A finding as the wrapper returns it, not enriched.
ScanResult(type, state, severity, id, packageIdentifier, cveName, cvssScore) ==
  [Type |-> type, State |-> state, Severity |-> severity, ID |-> id,
   PackageIdentifier |-> packageIdentifier, CveName |-> cveName, CvssScore |-> cvssScore,
   ScaType |-> "", ScaPackageCollection |-> <<>>,
   QueryID |-> <<>>, QueryName |-> "", Nodes |-> <<>>, Filename |-> "", Line |-> 0]

Finding(type, state, severity) == ScanResult(type, state, severity, "", "", "", 0)

InitOf(Scans, ResultSets, Args) ==
  /\ scan \in Scans
  /\ wrapperResults \in (IF isScanPending(scan.Status) THEN {<<>>} ELSE ResultSets)
  /\ args \in Args
  /\ scaPackageModel = <<>>
  /\ scaTypeModel = <<>>
  /\ pc = "start"
  /\ results = <<>>
  /\ summary = NilSummary
  /\ idx = 0
  /\ fmtIdx = 1
  /\ err = NoErr
  /\ summaryBuilt = FALSE
  /\ log = <<>>
  /\ files = {}
  /\ job = NoJob
  /\ document = NoDocument

\* A static-analysis finding with one source node.
SastFinding ==
  [Finding(SastType, "TO_VERIFY", "HIGH") EXCEPT
     !.Nodes = <<[FileName |-> "/src/a.go", Line |-> 3, Column |-> 1, Length |-> 2]>>]

\* The orchestrator over every format.
Init ==
  InitOf(ScanSets({"Completed", "Running"}, {Engines},
                  {AllCompleted, [AllCompleted EXCEPT ![ScaType] = ScanFailed]}),
         {<<SastFinding>>},
         ArgSets(SeqsUpTo(AllFormats, 1, MaxFormats), {<<>>},
                 {DefaultPdfOptions, <<"bogus">>}, {defaultSbomOption, "bogus"},
                 {LocalFlow, [local |-> FALSE, retry |-> 1]}))

Spec == Init /\ [][Next]_vars

\* The summary builder over scans and result sets, with the formats that read the Summary.
SummaryFindings ==
  {Finding(" sast ", "TO_VERIFY", "HIGH"), Finding(ScaType, notExploitable, "MEDIUM"),
   Finding(KicsType, "CONFIRMED", "LOW"), Finding(ScaType, "TO_VERIFY", "INFO")}

SummaryDetails ==
  {AllCompleted,
   [AllCompleted EXCEPT ![ScaType] = ScanFailed],
   [AllCompleted EXCEPT ![KicsType] = ScanCanceled],
   [e \in Engines |-> ScanFailed]}

SummaryFormatList ==
  {FormatSummaryConsole, FormatSummaryJSON, FormatSummaryMarkdown, FormatSbom}

\* The SBOM job runs through the proxy; the polled flow is requested for one scan only.
InitSummary ==
  /\ InitOf(ScanSets({"Completed", "Running"}, SUBSET Engines, SummaryDetails),
            SeqsUpTo(SummaryFindings, 0, MaxResults),
            ArgSets(SeqsUpTo(SummaryFormatList, 1, MaxFormats), {<<>>}, {DefaultPdfOptions},
                    {defaultSbomOption}, {LocalFlow, [local |-> FALSE, retry |-> 1]}))
  /\ (HasFormat(args.reportList, FormatSbom) /\ args.useSCALocalFlow)
       => (scan.Engines = Engines /\ scan.StatusDetails = AllCompleted
           /\ wrapperResults = <<>> /\ Len(args.reportList) = 1)

SpecSummary == InitSummary /\ [][Next]_vars

\* The two asynchronous documents alone.
InitPoller ==
  InitOf(ScanSets({"Completed"}, {Engines}, {AllCompleted}),
         {<<>>, <<Finding(ScaType, "TO_VERIFY", "LOW")>>},
         ArgSets({<<FormatPDF>>, <<FormatSbom>>},
                 {<<>>, <<"dev@cx.io">>, <<"dev@cx.io", "not-an-email">>},
                 {DefaultPdfOptions, <<"Sast", "bogus">>},
                 {defaultSbomOption, "CycloneDxXml", "bogus"},
                 {LocalFlow} \cup ProxyFlows))

SpecPoller == InitPoller /\ [][Next]_vars

\* The process runs on while it can take a step.
SpecPollerFair == SpecPoller /\ WF_vars(Next)


(***************************************************************************)
(* Properties.                                                             *)
(***************************************************************************)
Counter(sum, engine) ==
  IF engine = SastType THEN sum.SastIssues
  ELSE IF engine = ScaType THEN sum.ScaIssues
  ELSE sum.KicsIssues

AllCounters(sum) ==
  <<sum.SastIssues, sum.ScaIssues, sum.KicsIssues, sum.TotalIssues,
    sum.HighIssues, sum.MediumIssues, sum.LowIssues, sum.InfoIssues>>

EngineFailed(engine) ==
  scan.StatusDetails[engine] \in {ScanFailed, ScanCanceled}

\* The finding counts toward the Summary: engine enabled for the scan, state exploitable.
Counted(result) ==
  TrimSpace(result.Type) \in scan.Engines /\ isExploitable(result.State)

\* C1: in every state after summaryReport has run (also after each format is
\* rendered), when no per-engine counter is the sentinel, TotalIssues is the sum
\* of the three per-engine counters.
C1_TotalIsSum ==
  (/\ summaryBuilt
   /\ summary.SastIssues # notAvailableNumber
   /\ summary.ScaIssues # notAvailableNumber
   /\ summary.KicsIssues # notAvailableNumber)
  => summary.TotalIssues = summary.SastIssues + summary.ScaIssues + summary.KicsIssues

CoercingFormats == {FormatSummary, FormatSummaryJSON, FormatSummaryMarkdown, FormatSbom}

\* C3: a createReport call for summary HTML, summary JSON, summary markdown or
\* SBOM leaves every per-engine counter of the caller's Summary as it was.
C3_RenderKeepsSummary ==
  [][(/\ pc = "loop"
      /\ fmtIdx <= Len(args.reportList)
      /\ \E f \in CoercingFormats : IsFormat(args.reportList[fmtIdx], f))
     => \A e \in Engines : Counter(summary', e) = Counter(summary, e)]_vars

\* C4: the formats are attempted in the order given; an error of createReport is
\* returned by CreateScanReport and ends the loop, so no later format is attempted
\* and nothing is written for it; the files of the earlier formats stay.
C4_FailFastInOrder ==
  /\ Len(log) <= Len(args.reportList)
  /\ \A i \in 1..Len(log) : log[i].format = args.reportList[i]
  /\ \A i \in 1..Len(log) : i < Len(log) => log[i].err = NoErr
  /\ (Len(log) > 0 /\ log[Len(log)].err # NoErr)
       => (pc = "done" /\ err = log[Len(log)].err /\ fmtIdx = Len(log))
  /\ (Len(log) = 0 \/ log[Len(log)].err = NoErr) => fmtIdx = Len(log) + 1
  /\ pc = "job" => (fmtIdx <= Len(args.reportList) /\ job.pc # "ended")
  /\ (pc = "done" /\ err = NoErr) => Len(log) = Len(args.reportList)
  /\ \A f \in files : f[2] <= Len(log) /\ log[f[2]].file = f[1]
  /\ \A i \in 1..Len(log) :
       log[i].file # "" => \E f \in files : f[1] = log[i].file /\ f[2] >= i

\* The format at position 1 of 2 failed after the summary was built: the run is
\* over with that error and the second format was never attempted.
C4_Witness ==
  /\ pc = "done"
  /\ Len(args.reportList) = 2
  /\ Len(log) = 1
  /\ log[1].err # NoErr
  /\ err = log[1].err

\* C5: as summaryReport returns, the counter of every engine that is not enabled
\* for the scan is the sentinel, whatever findings the result set holds.
C5_DisabledIsSentinel ==
  (pc = "loop" /\ summaryBuilt /\ log = <<>>)
  => \A e \in Engines \ scan.Engines : Counter(summary, e) = notAvailableNumber

\* summaryReport has returned for a scan with SCA disabled whose result set holds
\* an exploitable SCA finding.
C5_Witness ==
  /\ pc = "loop" /\ summaryBuilt /\ log = <<>>
  /\ ScaType \notin scan.Engines
  /\ \E i \in 1..Len(results) :
       TrimSpace(results[i].Type) = ScaType /\ isExploitable(results[i].State)

\* C6: every per-engine counter is >= 0 or the sentinel, and it is the sentinel
\* only for an engine that is not enabled or whose status is failed or canceled.
C6_SentinelOnlyIfUnavailable ==
  \A e \in Engines :
    /\ Counter(summary, e) >= 0 \/ Counter(summary, e) = notAvailableNumber
    /\ Counter(summary, e) = notAvailableNumber
         => (e \notin scan.Engines \/ EngineFailed(e))

\* After summaryReport: one counter is the sentinel for a failed enabled engine,
\* another for a disabled engine that did not fail, a third counts a finding.
C6_Witness ==
  /\ summaryBuilt
  /\ \E e \in Engines :
       Counter(summary, e) = notAvailableNumber /\ e \in scan.Engines /\ EngineFailed(e)
  /\ \E e \in Engines :
       Counter(summary, e) = notAvailableNumber /\ e \notin scan.Engines /\ ~EngineFailed(e)
  /\ \E e \in Engines : Counter(summary, e) > 0

\* C7: in the count pass, a finding whose engine is not enabled or whose state is
\* not exploitable changes no counter of the Summary.
C7_OnlyCountedFindingsCount ==
  [][(pc = "count" /\ idx <= Len(results) /\ ~Counted(results[idx]))
     => AllCounters(summary') = AllCounters(summary)]_vars

\* The pass has gone over a finding of a disabled engine and over a
\* non-exploitable finding of an enabled one, and has counted a third.
C7_Witness ==
  /\ pc = "count"
  /\ idx > Len(results)
  /\ \E i \in 1..Len(results) : TrimSpace(results[i].Type) \notin scan.Engines
  /\ \E i \in 1..Len(results) :
       TrimSpace(results[i].Type) \in scan.Engines /\ ~isExploitable(results[i].State)


(***************************************************************************)
(* Properties of the asynchronous jobs.                                    *)
(***************************************************************************)
\* The in-progress statuses and the completed status as each service names them.
InProgressOf(kind) ==
  IF kind = "pdf" THEN {"started", "requested"} ELSE {"Exporting", "Pending"}

ReportsCompleted(kind, status) ==
  IF kind = "pdf" THEN status = "completed" ELSE ToLower(status) = "completed"

Polled == job.kind \in {"pdf", "sbom"}
LastReturn == log[Len(log)]

\* The polling loop of the job was left on a fetched status (not on an error).
LoopEndedOnStatus ==
  /\ Polled
  /\ job.pc = "ended"
  /\ job.exit \in {"status", "downloaded", "downloadFailed"}

\* C2: when the loop ends on the completed status, one download call is made and
\* the run succeeds if the download does; when it ends on another status outside
\* the in-progress set, the run fails with that status in the message and no
\* download call is made.
C2_TerminalStatusDecides ==
  LoopEndedOnStatus =>
    /\ job.fetches > 0
    /\ job.status = job.hist[Len(job.hist)]
    /\ job.status \notin InProgressOf(job.kind)
    /\ IF ReportsCompleted(job.kind, job.status)
         THEN /\ job.downloads = 1
              /\ job.exit \in {"downloaded", "downloadFailed"}
              /\ job.exit = "downloaded" => (LastReturn.err = NoErr /\ err = NoErr)
         ELSE /\ job.downloads = 0
              /\ LastReturn.err # NoErr
              /\ ErrContains(LastReturn.err, job.status)
              /\ pc = "done" /\ err = LastReturn.err

\* An SBOM job whose loop ended on "Completed" after a "Pending", downloaded.
C2_Witness ==
  /\ LoopEndedOnStatus
  /\ job.kind = "sbom"
  /\ job.hist = <<"Pending", "Completed">>
  /\ job.exit = "downloaded"

IsPrefix(a, b) == Len(a) <= Len(b) /\ \A i \in 1..Len(a) : a[i] = b[i]

\* The loop of the job has ended on a status and hist is all it fetched.
RanOn(feed) ==
  /\ LoopEndedOnStatus
  /\ job.fetches = Len(job.hist)
  /\ IsPrefix(job.hist, feed)

Succeeds ==
  /\ job.downloads = 1
  /\ job.exit = "downloaded" => LastReturn.err = NoErr

FailsWithoutDownload ==
  /\ job.downloads = 0
  /\ job.exit = "status"
  /\ LastReturn.err # NoErr

\* The feeds of the claim, with the strings the code compares against.
GenericFeed(kind) ==
  IF kind = "pdf" THEN <<"started", "Exporting", "completed">>
  ELSE <<"started", "Exporting", "Completed">>

\* C8 as stated: either poller takes [Started, Exporting, Completed] to the end and
\* downloads once, and fails without a download on [Started, SomeOtherStatus].
C8_GenericPoller ==
  /\ RanOn(GenericFeed(job.kind)) => (job.hist = GenericFeed(job.kind) /\ Succeeds)
  /\ (RanOn(<<"started", "SomeOtherStatus">>) /\ Len(job.hist) = 2) => FailsWithoutDownload

KindFeed(kind) ==
  IF kind = "pdf" THEN <<"started", "requested", "completed">>
  ELSE <<"Exporting", "Pending", "Completed">>

KindFailFeed(kind) ==
  IF kind = "pdf" THEN <<"started", "SomeOtherStatus">>
  ELSE <<"Exporting", "SomeOtherStatus">>

\* C8, amended: each poller takes the three statuses of its own service to the end
\* and downloads once; it fails without a download on an in-progress status of its
\* own followed by SomeOtherStatus, and on an in-progress status of the other service.
C8_PerKindPoller ==
  /\ RanOn(KindFeed(job.kind)) => (job.hist = KindFeed(job.kind) /\ Succeeds)
  /\ RanOn(KindFailFeed(job.kind)) => (job.hist = KindFailFeed(job.kind) /\ FailsWithoutDownload)
  /\ (/\ LoopEndedOnStatus
      /\ job.status \in InProgressOf(IF job.kind = "pdf" THEN "sbom" ELSE "pdf"))
       => FailsWithoutDownload

\* A PDF job fed started, requested, completed has ended with its download made.
C8_Witness ==
  /\ RanOn(KindFeed("pdf"))
  /\ job.kind = "pdf"
  /\ job.hist = KindFeed("pdf")
  /\ job.exit = "downloaded"
  /\ pc = "done" /\ err = NoErr

\* C9: one submission call, made before any status fetch; the status only changes
\* by a fetch; at most one download, only after a fetch returned completed; a
\* failed submission or a failed fetch returns the error at once, with no download.
C9_JobCallOrder ==
  Polled =>
    /\ job.submits <= 1
    /\ job.pc \in {"poll", "ended"} => job.submits = 1
    /\ job.fetches > 0 => job.submits = 1
    /\ job.hist = <<>> => job.status \in {"", initialStatus(job.kind)}
    /\ job.hist # <<>> => (job.fetches > 0 /\ job.status = job.hist[Len(job.hist)])
    /\ job.downloads <= 1
    /\ job.downloads = 1 => (job.fetches > 0 /\ ReportsCompleted(job.kind, job.status))
    /\ job.exit \in {"submitFailed", "fetchFailed"}
         => (job.downloads = 0 /\ LastReturn.err # NoErr /\ pc = "done")

\* The same without the error of a failed call being returned.
C9_CallOrderOnly ==
  Polled =>
    /\ job.submits <= 1
    /\ job.pc \in {"poll", "ended"} => job.submits = 1
    /\ job.fetches > 0 => job.submits = 1
    /\ job.hist = <<>> => job.status \in {"", initialStatus(job.kind)}
    /\ job.hist # <<>> => (job.fetches > 0 /\ job.status = job.hist[Len(job.hist)])
    /\ job.downloads <= 1
    /\ job.downloads = 1 => (job.fetches > 0 /\ ReportsCompleted(job.kind, job.status))
    /\ job.exit \in {"submitFailed", "fetchFailed"} => job.downloads = 0

Polling == pc = "job" /\ Polled /\ job.pc = "poll"

\* C10: while the status is in progress the next step is another fetch, however
\* many were made; once a status outside the in-progress set is fetched no fetch
\* follows and the job ends; an ended job fetches no more.
C10_PollsUntilTerminal ==
  /\ [](Polling /\ job.status \in InProgressOf(job.kind)
          => (ENABLED JobFetch /\ ~ENABLED JobConclude))
  /\ [](Polling /\ job.status \notin InProgressOf(job.kind) => ~ENABLED JobFetch)
  /\ [][job.pc = "ended" => job' = job]_vars
  /\ (Polling /\ job.status \notin InProgressOf(job.kind)) ~> (job.pc = "ended")

\* A job still in progress after more fetches than hist records.
C10_Witness ==
  /\ Polling
  /\ job.fetches > MaxHist
  /\ job.status \in InProgressOf(job.kind)

(***************************************************************************)
(* The SBOM proxy loop.                                                    *)
(***************************************************************************)
ProxyRetries == IF args.retrySBOM > 0 THEN args.retrySBOM ELSE 0

\* C11: in proxy mode at most retrySBOM submit-and-check calls are made; the loop
\* returns nil at the first call that reports completed, the error at the first
\* call that fails, and nil when every one of the retrySBOM calls (none, for a
\* count of 0) reported not completed.
C11_ProxyBoundedRetry ==
  job.kind = "proxy" =>
    /\ job.submits <= ProxyRetries
    /\ job.fetches = 0 /\ job.downloads = 0
    /\ job.pc = "proxy" => job.submits = job.i
    /\ job.pc = "ended" =>
         /\ job.exit \in {"completed", "submitFailed", "exhausted"}
         /\ job.exit = "completed"
              => (job.submits = job.i + 1 /\ LastReturn.err = NoErr /\ err = NoErr)
         /\ job.exit = "submitFailed"
              => (job.submits = job.i + 1 /\ LastReturn.err # NoErr
                  /\ pc = "done" /\ err = LastReturn.err)
         /\ job.exit = "exhausted"
              => (job.submits = ProxyRetries /\ job.i = job.submits
                  /\ LastReturn.err = NoErr /\ err = NoErr)

\* With retrySBOM = MaxRetry every call reported not completed: the format
\* returned nil and the invocation succeeded.
C11_Witness ==
  /\ job.kind = "proxy"
  /\ job.pc = "ended"
  /\ job.exit = "exhausted"
  /\ args.retrySBOM = MaxRetry
  /\ job.submits = MaxRetry
  /\ pc = "done"
  /\ err = NoErr

(***************************************************************************)
(* Preconditions of the formats.                                           *)
(***************************************************************************)
AtFormat(format) ==
  /\ pc = "loop"
  /\ fmtIdx <= Len(args.reportList)
  /\ IsFormat(args.reportList[fmtIdx], format)

\* The createReport call of this step returned a non-nil error; no job was started.
FailsAtOnce ==
  /\ pc' = "done"
  /\ err' # NoErr
  /\ job' = job
  /\ files' = files
  /\ Len(log') = Len(log) + 1
  /\ log'[Len(log')].err = err'

\* C12: SBOM requested for a completed scan whose SCA engine is not enabled, or
\* whose SCA counter is the sentinel as createReport is called: the call returns
\* an error and no SBOM submission (local flow or proxy) is made.
C12_SbomNeedsSca ==
  [][(/\ AtFormat(FormatSbom)
      /\ EqualFold(scan.Status, "Completed")
      /\ \/ ~contains(scan.Engines, ScaType)
         \/ summary.ScaIssues = notAvailableNumber)
     => FailsAtOnce]_vars

\* The formats that need the results of a finished scan.
CompletedScanFormats == {FormatSarif, FormatSonar, FormatJSON, FormatPDF, FormatSbom}

NeedsCompletedScan(format) == \E f \in CompletedScanFormats : IsFormat(format, f)

\* C13: while the scan is pending, a requested SARIF, Sonar, JSON, PDF or SBOM
\* format makes createReport return an error before any encoder or poller runs:
\* nothing is written and no job is submitted for it, the invocation returns that
\* error and the later formats are not attempted.
C13_PendingScanFailsFormat ==
  isScanPending(scan.Status) =>
    /\ job = NoJob
    /\ \A i \in 1..Len(log) :
         NeedsCompletedScan(log[i].format) =>
           /\ log[i].err # NoErr
           /\ log[i].file = ""
           /\ i = Len(log)
           /\ pc = "done"
           /\ err = log[i].err
           /\ \A f \in files : f[2] # i

\* A pending scan: the console summary was printed, then the PDF format failed
\* and ended the invocation.
C13_Witness ==
  /\ isScanPending(scan.Status)
  /\ pc = "done"
  /\ Len(log) = 2
  /\ IsFormat(log[1].format, FormatSummaryConsole)
  /\ log[1].err = NoErr
  /\ IsFormat(log[2].format, FormatPDF)
  /\ log[2].err # NoErr
  /\ job = NoJob

(***************************************************************************)
(* Failures and what the formats return.                                   *)
(***************************************************************************)
\* The output of the format of log entry i exists: its file was written, or it
\* has no file (the console summary, a PDF report sent by e-mail).
OutputProduced(i) ==
  \/ log[i].file # ""
  \/ IsFormat(log[i].format, FormatSummaryConsole)
  \/ IsFormat(log[i].format, FormatPDF) /\ Len(args.formatPdfToEmail) > 0

\* C14: no failure is swallowed: a nil return of createReport for a format means
\* its output was produced; every failed step makes createReport return an error.
C14_NoSwallowedFailure ==
  \A i \in 1..Len(log) : log[i].err = NoErr => OutputProduced(i)

(***************************************************************************)
(* The Summary each format is rendered from.                               *)
(***************************************************************************)
RECURSIVE countResults(_, _, _)
\* enhanceWithScanSummary's loop from result i on.
countResults(sum, rs, i) ==
  IF i > Len(rs) THEN sum ELSE countResults(countResult(sum, rs[i]), rs, i + 1)

\* summaryReport as a whole: the count pass, the total, the sentinels, the label.
summaryReport(sum, rs) == finishSummary(sumTotalIssues(countResults(sum, rs, 1)))

\* The Summary CreateScanReport holds as it enters the loop when format is the
\* only format requested.
SummaryAlone(format) ==
  IF verifyFormatsByReportList(<<format>>, summaryFormats) /\ ~isScanPending(scan.Status)
    THEN summaryReport(convertScanToResultsSummary(scan), results)
    ELSE convertScanToResultsSummary(scan)

\* The formats that show the counters of the Summary.
CounterFormats ==
  {FormatSummaryConsole, FormatSummary, FormatSummaryJSON, FormatSummaryMarkdown}

\* What createReport produces for a format: what it returns or starts, the file
\* it writes and, for a format that shows them, the counters it renders.
Produced(format, sum, io) ==
  LET r == createReport(format, results, sum, args, io) IN
  [kind |-> r.kind, err |-> r.err, file |-> r.file, job |-> r.job.kind,
   shown |-> IF \E f \in CounterFormats : IsFormat(format, f)
               THEN AllCounters(r.summary) ELSE <<>>]

\* C15: what is produced for a format at any position of the list is what is
\* produced for it when it is requested alone.
C15_FormatIndependent ==
  (pc = "loop" /\ fmtIdx <= Len(args.reportList)) =>
    \A io \in FormatOutcomes(args.reportList[fmtIdx]) :
      Produced(args.reportList[fmtIdx], summary, io)
        = Produced(args.reportList[fmtIdx], SummaryAlone(args.reportList[fmtIdx]), io)

\* C16: the Summary a summary encoder (HTML, JSON, markdown) renders has no
\* per-engine counter at the sentinel.
C16_RenderedWithoutSentinel ==
  \A f \in {FormatSummary, FormatSummaryJSON, FormatSummaryMarkdown} :
    AtFormat(f) =>
      \A e \in Engines :
        Counter(createReport(args.reportList[fmtIdx], results, summary, args, "ok").summary, e)
          # notAvailableNumber

(***************************************************************************)
(* The order of the steps of CreateScanReport.                             *)
(***************************************************************************)
\* The steps in order: provisional Summary and directory, ReadResults, the
\* Summary Builder (its call, its count pass), the formats, the return.
StepOrder == <<"start", "read", "summary", "count", "loop", "done">>

StepOf(p) ==
  IF p = "job" THEN 5 ELSE CHOOSE k \in 1..Len(StepOrder) : StepOrder[k] = p

Rendering == log # <<>> \/ job # NoJob \/ files # {}

\* C17: the steps are taken in order, each at most once: the provisional Summary
\* and the directory, then ReadResults (only if the scan is not pending), then the
\* Summary Builder (only if a format needs it and the scan is not pending), then
\* the formats; an error before the loop means no format is rendered.
C17_StepOrder ==
  /\ [](Rendering => pc \in {"loop", "job", "done"})
  /\ [](pc \in {"loop", "job"}
          => (/\ summary.Status = scan.Status
              /\ summaryBuilt = (isSummaryNeeded /\ ~scanPending)
              /\ results = (IF scanPending THEN <<>>
                            ELSE enrichScaResults(scan, wrapperResults, scaPackageModel,
                                                  scaTypeModel).results)))
  /\ []((pc = "done" /\ ~Rendering /\ err # NoErr) => fmtIdx = 1)
  /\ [][/\ StepOf(pc') >= StepOf(pc)
        /\ (StepOf(pc') = StepOf(pc) /\ StepOf(pc) < 5) => (pc = "count" /\ idx' = idx + 1)
        /\ (StepOf(pc') > StepOf(pc) /\ StepOf(pc') < 5) => StepOf(pc') = StepOf(pc) + 1
        /\ results' # results => (pc = "read" /\ ~scanPending)
        /\ summaryBuilt' # summaryBuilt => (pc = "count" /\ pc' = "loop")
        /\ (pc \in {"loop", "job", "done"}) => (results' = results /\ summaryBuilt' = summaryBuilt)
        /\ (pc' = "done" /\ StepOf(pc) < 5) => (err' # NoErr /\ ~Rendering')]_vars

\* The result set is read, the Summary built, and the first format not yet rendered.
C17_Witness ==
  /\ pc = "loop"
  /\ fmtIdx = 1
  /\ summaryBuilt
  /\ results # <<>>
  /\ ~Rendering

(***************************************************************************)
(* The risk label.                                                         *)
(***************************************************************************)
\* Counted findings of every severity.
RiskFindings ==
  {Finding(SastType, "TO_VERIFY", "HIGH"), Finding(SastType, "CONFIRMED", "MEDIUM"),
   Finding(SastType, "TO_VERIFY", "LOW"), Finding(SastType, "TO_VERIFY", "INFO")}

RiskDetails == {AllCompleted, [e \in Engines |-> ScanFailed]}

InitRisk ==
  InitOf(ScanSets({"Completed"}, {Engines}, RiskDetails),
         SeqsUpTo(RiskFindings, 0, MaxResults),
         ArgSets({<<FormatSummaryConsole>>, <<FormatPDF>>, <<FormatSbom>>}, {<<>>},
                 {DefaultPdfOptions}, {defaultSbomOption},
                 {LocalFlow, [local |-> FALSE, retry |-> 1]}))

SpecRisk == InitRisk /\ [][Next]_vars

\* C18: once the Summary Builder has run, the label is High Risk if HighIssues > 0,
\* else Medium Risk if MediumIssues > 0, else Low Risk if LowIssues > 0, else
\* No Risk exactly when TotalIssues is 0, and empty otherwise.
C18_RiskLabel ==
  summaryBuilt =>
    /\ summary.HighIssues > 0 => summary.RiskMsg = "High Risk"
    /\ (summary.HighIssues = 0 /\ summary.MediumIssues > 0)
         => summary.RiskMsg = "Medium Risk"
    /\ (summary.HighIssues = 0 /\ summary.MediumIssues = 0 /\ summary.LowIssues > 0)
         => summary.RiskMsg = "Low Risk"
    /\ (summary.HighIssues = 0 /\ summary.MediumIssues = 0 /\ summary.LowIssues = 0)
         => /\ summary.RiskMsg \in {"No Risk", ""}
            /\ summary.RiskMsg = "No Risk" <=> summary.TotalIssues = 0

\* A high and a medium finding were counted and the label is High Risk.
C18_Witness ==
  /\ summaryBuilt
  /\ summary.HighIssues > 0
  /\ summary.MediumIssues > 0
  /\ summary.RiskMsg = "High Risk"

(***************************************************************************)
(* Enrichment: the inputs and the properties.                              *)
(***************************************************************************)
PathElement(id) == [ID |-> id, Locations |-> <<>>, SupportsQuickFix |-> FALSE]

\* Dependency paths of one and two elements; the head of the last one arrives
\* with a flag and a location already set.
EnrichPathSet ==
  {<<PathElement("pkgA")>>, <<PathElement("pkgB")>>,
   <<PathElement("pkgB"), PathElement("pkgA")>>,
   <<[ID |-> "pkgA", Locations |-> <<"old.txt">>, SupportsQuickFix |-> TRUE],
     PathElement("pkgB")>>}

ScaPackage(id, locations, paths, quickFix, direct) ==
  [ID |-> id, Locations |-> locations, DependencyPathArray |-> paths,
   SupportsQuickFix |-> quickFix, IsDirectDependency |-> direct,
   FixLink |-> <<>>, TypeOfDependency |-> ""]

\* Tables of two packages: pkgA, the package of the findings, and pkgB.
EnrichPackageTables ==
  {<<ScaPackage("pkgA", la, paths, qf, direct), ScaPackage("pkgB", lb, <<>>, FALSE, FALSE)>> :
     la \in {<<"package.json">>, <<"package.json", "Dockerfile">>},
     paths \in SeqsUpTo(EnrichPathSet, 0, MaxPaths),
     qf \in BOOLEAN, direct \in BOOLEAN,
     lb \in {<<>>, <<"Dockerfile">>}}

EnrichTypeTables ==
  {<<>>,
   <<[ID |-> "cve1", Type |-> "SupplyChain", IsIgnored |-> TRUE]>>,
   <<[ID |-> "cve1", Type |-> "Vulnerability", IsIgnored |-> FALSE]>>}

\* A dependency finding of pkgA, one of a package the table does not have, and
\* a finding of another engine.
EnrichFindings ==
  {ScanResult(ScaType, "TO_VERIFY", "HIGH", "cve1", "pkgA", "CVE-2024-1", 745),
   ScanResult(ScaType, "CONFIRMED", "LOW", "cve2", "pkgZ", "", 700),
   ScanResult(SastType, "TO_VERIFY", "MEDIUM", "q1", "", "", 0)}

InitEnrich ==
  /\ scan \in ScanSets({"Completed"}, {Engines}, {AllCompleted})
  /\ wrapperResults \in SeqsUpTo(EnrichFindings, 1, MaxResults)
  /\ args \in ArgSets({<<FormatJSON>>}, {<<>>}, {DefaultPdfOptions}, {defaultSbomOption},
                      {LocalFlow})
  /\ scaPackageModel \in EnrichPackageTables
  /\ scaTypeModel \in EnrichTypeTables
  /\ pc = "start"
  /\ results = <<>>
  /\ summary = NilSummary
  /\ idx = 0
  /\ fmtIdx = 1
  /\ err = NoErr
  /\ summaryBuilt = FALSE
  /\ log = <<>>
  /\ files = {}
  /\ job = NoJob
  /\ document = NoDocument

\* ReadResults and the step before it.
NextEnrich ==
  \/ ConvertScan
  \/ ReadResultsStep

SpecEnrich == InitEnrich /\ [][NextEnrich]_vars

\* ReadResults has returned the enriched result set.
Enriched == pc = "summary" /\ contains(scan.Engines, ScaType)

\* C19: enriching the enriched result set again, with the same tables, gives the
\* same result set and leaves the tables as they are.
C19_EnrichmentIdempotent ==
  Enriched =>
    LET again == addPackageInformation(results, scaPackageModel, scaTypeModel) IN
    /\ again.results = results
    /\ again.packages = scaPackageModel

\* An enriched finding whose state was overwritten carries a quick-fix package
\* with two dependency paths.
C19_Witness ==
  /\ Enriched
  /\ \E i \in 1..Len(results) :
       /\ results[i].State # wrapperResults[i].State
       /\ results[i].ScaPackageCollection # <<>>
       /\ results[i].ScaPackageCollection[1].SupportsQuickFix
       /\ Len(results[i].ScaPackageCollection[1].DependencyPathArray) = 2

\* The head of the path is quick-fix eligible: one element, and every location of
\* the head's package is a supported file.
HeadEligible(dependencyPath) ==
  /\ Len(dependencyPath) = 1
  /\ \A k \in 1..Len(scaPackageModel) :
       scaPackageModel[k].ID = dependencyPath[1].ID
         => \A j \in 1..Len(scaPackageModel[k].Locations) :
              IsPackageFileSupported(scaPackageModel[k].Locations[j])

\* C20: for a dependency finding whose package is in the table, the head of each
\* path is flagged exactly when the path has one element and every location of
\* the head is a fixable file, and the flag of the package is the OR of the flags
\* of the heads of its paths.
C20_QuickFix ==
  Enriched =>
    \A i \in 1..Len(results) :
      (results[i].Type = ScaType /\ results[i].ScaPackageCollection # <<>>) =>
        LET package == results[i].ScaPackageCollection[1] IN
        /\ \A k \in 1..Len(package.DependencyPathArray) :
             package.DependencyPathArray[k][1].SupportsQuickFix
               <=> HeadEligible(package.DependencyPathArray[k])
        /\ package.SupportsQuickFix
             <=> \E k \in 1..Len(package.DependencyPathArray) :
                   package.DependencyPathArray[k][1].SupportsQuickFix

\* The same with the flag the package record arrived with taken into the OR.
C20_QuickFixFromRecord ==
  Enriched =>
    \A i \in 1..Len(results) :
      (results[i].Type = ScaType /\ results[i].ScaPackageCollection # <<>>) =>
        LET package == results[i].ScaPackageCollection[1]
            S == {k \in 1..Len(scaPackageModel) : scaPackageModel[k].ID = package.ID}
        IN
        /\ \A k \in 1..Len(package.DependencyPathArray) :
             package.DependencyPathArray[k][1].SupportsQuickFix
               <=> HeadEligible(package.DependencyPathArray[k])
        /\ package.SupportsQuickFix
             <=> \/ scaPackageModel[LastIndex(S)].SupportsQuickFix
                 \/ \E k \in 1..Len(package.DependencyPathArray) :
                      package.DependencyPathArray[k][1].SupportsQuickFix

(***************************************************************************)
(* The counters and the label against the findings counted.                *)
(***************************************************************************)
\* The number of findings of the engine that count toward the Summary.
CountedOf(engine) ==
  Cardinality({i \in 1..Len(results) :
                 TrimSpace(results[i].Type) = engine /\ Counted(results[i])})

BuilderReturned == pc = "loop" /\ summaryBuilt /\ log = <<>>

\* C28: as the Summary Builder returns, every per-engine counter that is not the
\* sentinel is the number of counted findings of that engine, also for an engine
\* whose status is failed or canceled.
C28_CounterIsCount ==
  BuilderReturned =>
    \A e \in Engines :
      Counter(summary, e) # notAvailableNumber => Counter(summary, e) = CountedOf(e)

\* What the counters are: the count added to the value the counter started at,
\* and the sentinel when that is 0 for an engine that is not enabled.
C28_CountFromInitial ==
  BuilderReturned =>
    \A e \in Engines :
      LET n == initialCounter(scan.StatusDetails, e) + CountedOf(e) IN
      Counter(summary, e) = IF n = 0 /\ e \notin scan.Engines THEN notAvailableNumber ELSE n

\* C29: once the Summary Builder has run, the label is No Risk only if no finding
\* of the result set was counted.
C29_NoRiskMeansNoneCounted ==
  (summaryBuilt /\ summary.RiskMsg = "No Risk")
    => \A i \in 1..Len(results) : ~Counted(results[i])

\* The same for the scans none of whose engines failed or was canceled.
C29_NoRiskUnlessFailed ==
  (summaryBuilt /\ summary.RiskMsg = "No Risk" /\ \A e \in Engines : ~EngineFailed(e))
    => \A i \in 1..Len(results) : ~Counted(results[i])

(***************************************************************************)
(* The PDF report sent by e-mail.                                          *)
(***************************************************************************)
EmailMode == HasFormat(args.reportList, FormatPDF) /\ Len(args.formatPdfToEmail) > 0

AllEmailsValid ==
  \A i \in 1..Len(args.formatPdfToEmail) : emailMatches(TrimSpace(args.formatPdfToEmail[i]))

ScanResultNode(fileName, line, column, length) ==
  [FileName |-> fileName, Line |-> line, Column |-> column, Length |-> length]

\* A query id as the decoder delivers it: a number or a string.
QueryNumber(text) == [kind |-> "number", text |-> text]
QueryString(text) == [kind |-> "string", text |-> text]

\* A static-analysis finding with its query and its source nodes.
SastResult(severity, id, queryID, queryName, nodes) ==
  [ScanResult(SastType, "TO_VERIFY", severity, id, "", "", 0) EXCEPT
     !.QueryID = <<queryID>>, !.QueryName = queryName, !.Nodes = nodes]

\* An infra-as-code finding with its query and its place.
KicsResult(severity, id, queryID, queryName, filename, line) ==
  [ScanResult(KicsType, "TO_VERIFY", severity, id, "", "", 0) EXCEPT
     !.QueryID = <<queryID>>, !.QueryName = queryName, !.Filename = filename,
     !.Line = line]

\* Static-analysis findings of one query: with two nodes, the second of length 0;
\* with nodes that have no line or a one-character file name (and a query id
\* that is a string); with no node.  An infra-as-code finding, a dependency
\* finding of pkgA and one of a package the table does not have.
EncodeFindings ==
  {SastResult("HIGH", "r1", QueryNumber("101"), "SQL_Injection",
              <<ScanResultNode("/src/a.go", 3, 1, 2), ScanResultNode("/src/a.go", 5, 4, 0)>>),
   SastResult("MEDIUM", "r2", QueryString("101"), "SQL_Injection",
              <<ScanResultNode("/src/a.go", 0, 1, 2), ScanResultNode("/", 5, 4, 0)>>),
   SastResult("LOW", "r3", QueryNumber("101"), "SQL_Injection", <<>>),
   KicsResult("INFO", "k1", QueryNumber("202"), "Missing_User", "/Dockerfile", 7),
   ScanResult(ScaType, "TO_VERIFY", "HIGH", "cve1", "pkgA", "CVE-2024-1", 745),
   ScanResult(ScaType, "CONFIRMED", "LOW", "cve2", "pkgZ", "", 700)}

\* The package table: pkgA with no, one or two locations.
EncodePackageTables ==
  {<<ScaPackage("pkgA", locations, <<>>, FALSE, TRUE)>> :
     locations \in {<<>>, <<"package.json">>, <<"package.json", "Dockerfile">>}}

EncodeFormatLists ==
  {<<FormatSarif>>, <<FormatSonar>>, <<FormatGL>>, <<FormatJSON>>,
   <<FormatSummaryConsole, FormatSarif>>}

\* The tables are fetched for a scan that has the SCA engine.
InitEncode ==
  /\ scan \in ScanSets({"Completed"}, {Engines, {SastType, KicsType}}, {AllCompleted})
  /\ wrapperResults \in SeqsUpTo(EncodeFindings, 0, MaxResults)
  /\ args \in ArgSets(EncodeFormatLists, {<<>>}, {DefaultPdfOptions}, {defaultSbomOption},
                      {LocalFlow})
  /\ scaPackageModel \in (IF contains(scan.Engines, ScaType)
                            THEN EncodePackageTables ELSE {<<>>})
  /\ scaTypeModel \in (IF contains(scan.Engines, ScaType) THEN EnrichTypeTables ELSE {<<>>})
  /\ pc = "start"
  /\ results = <<>>
  /\ summary = NilSummary
  /\ idx = 0
  /\ fmtIdx = 1
  /\ err = NoErr
  /\ summaryBuilt = FALSE
  /\ log = <<>>
  /\ files = {}
  /\ job = NoJob
  /\ document = NoDocument

\* CreateScanReport for the formats that have no asynchronous job.
NextEncode ==
  \/ ConvertScan
  \/ ReadResultsStep
  \/ BeginSummary
  \/ CountResult
  \/ FinishSummary
  \/ CreateReport
  \/ LoopDone

SpecEncode == InitEncode /\ [][NextEncode]_vars

\* The findings document of the format has just been written.
WroteDocument(format) ==
  /\ log # <<>>
  /\ IsFormat(log[Len(log)].format, format)
  /\ log[Len(log)].file # ""
  /\ document.kind = format

(***************************************************************************)
(* The order of the findings through enrichment and encoding.              *)
(***************************************************************************)
\* ReadResults has returned the result set.
ResultsRead == pc \in {"summary", "count", "loop", "panicked"} \/ (pc = "done" /\ err = NoErr)

RECURSIVE Flatten(_)
\* The concatenation of the sequences of ss, in order.
Flatten(ss) ==
  IF ss = <<>> THEN <<>> ELSE Flatten(SubSeq(ss, 1, Len(ss) - 1)) \o ss[Len(ss)]

\* The vulnerabilities of one finding in the gl-sast document.
glVulnerabilitiesOf(result) ==
  IF TrimSpace(result.Type) = SastType THEN <<parseGlSastVulnerability(result)>> ELSE <<>>

FirstWithRule(ruleID) ==
  CHOOSE i \in 1..Len(results) :
    /\ findRuleID(results[i]).ruleID = ruleID
    /\ \A k \in 1..(i - 1) : findRuleID(results[k]).ruleID # ruleID

\* C22: the SARIF document has one rule entry for each rule identifier of the
\* result set, that of the first finding with the identifier, in the order of
\* first occurrence; two findings with the same query id and engine type have
\* one rule entry between them.
C22_OneRulePerIdentifier ==
  WroteDocument(FormatSarif) =>
    LET rules == document.Rules IN
    /\ \A j, k \in 1..Len(rules) : rules[j].ID = rules[k].ID => j = k
    /\ {rules[j].ID : j \in 1..Len(rules)}
         = {findRuleID(results[i]).ruleID : i \in 1..Len(results)}
    /\ \A j \in 1..Len(rules) : rules[j] = sarifRuleOf(results[FirstWithRule(rules[j].ID)])
    /\ \A j, k \in 1..Len(rules) :
         j < k => FirstWithRule(rules[j].ID) < FirstWithRule(rules[k].ID)
    /\ \A i, k \in 1..Len(results) :
         (/\ i # k
          /\ results[i].QueryID # <<>>
          /\ results[i].QueryID = results[k].QueryID
          /\ results[i].Type = results[k].Type)
           => Cardinality({j \in 1..Len(rules) :
                             rules[j].ID = findRuleID(results[i]).ruleID}) = 1

\* Two findings of one query with different severities: the document has the one
\* rule entry of the first.
C22_Witness ==
  /\ WroteDocument(FormatSarif)
  /\ Len(results) = 2
  /\ results[1].QueryID # <<>>
  /\ results[1].QueryID = results[2].QueryID
  /\ results[1].Type = results[2].Type
  /\ results[1].Severity # results[2].Severity
  /\ Len(document.Rules) = 1
  /\ document.Rules[1].Properties.SecuritySeverity = securities(results[1].Severity)

\* The source nodes of a finding that give a location: a file path of two
\* characters or more and a positive line.
LocatedNodes(result) ==
  {k \in 1..Len(result.Nodes) :
     StrLen(result.Nodes[k].FileName) >= 2 /\ result.Nodes[k].Line > 0}

\* The number of locations the claim gives a finding.
ExpectedLocations(result) ==
  IF result.Type = SastType THEN Cardinality(LocatedNodes(result))
  ELSE IF result.Type = KicsType THEN 1
  ELSE IF result.Type = ScaType THEN Len(packageLocations(result))
  ELSE 0

RECURSIVE SumOver(_, _)
\* The sum of f[i] for i in S.
SumOver(f, S) ==
  IF S = {} THEN 0
  ELSE LET i == CHOOSE x \in S : TRUE IN f[i] + SumOver(f, S \ {i})

\* The locations of the SARIF document are those of the findings: one for each
\* located node of a static-analysis finding, one for an infra-as-code finding,
\* one for each file path of a dependency finding.
C23_LocationCounts ==
  WroteDocument(FormatSarif) =>
    SumOver([j \in 1..Len(document.Results) |-> Len(document.Results[j].Locations)],
            1..Len(document.Results))
      = SumOver([i \in 1..Len(results) |-> ExpectedLocations(results[i])], 1..Len(results))

\* C23: every result entry of the SARIF document has at least one location, and
\* the locations are those of the findings.
C23_EveryResultHasLocation ==
  /\ C23_LocationCounts
  /\ WroteDocument(FormatSarif)
       => \A j \in 1..Len(document.Results) : Len(document.Results[j].Locations) >= 1

(***************************************************************************)
(* The Sonar document.                                                     *)
(***************************************************************************)
\* The number of issues the claim gives a finding.
ExpectedIssues(result) ==
  IF TrimSpace(result.Type) \in {SastType, KicsType} THEN 1
  ELSE IF TrimSpace(result.Type) = ScaType THEN Len(packageLocations(result))
  ELSE 0

\* The position in the document of the first issue of finding i.
FirstIssue(i) ==
  1 + SumOver([k \in 1..Len(results) |-> ExpectedIssues(results[k])], 1..(i - 1))

NonEmptyColumns(textRange) == textRange.EndColumn > textRange.StartColumn

\* C24: the Sonar document has, in finding order, one issue for a static-analysis
\* finding (primary location from the first node, secondary locations from the
\* other nodes in order), one issue for an infra-as-code finding and one issue
\* for each location of a dependency finding; the column range of every source
\* node has its end after its start.
C24_SonarIssues ==
  WroteDocument(FormatSonar) =>
    LET issues == document.Results IN
    /\ Len(issues) = SumOver([i \in 1..Len(results) |-> ExpectedIssues(results[i])],
                             1..Len(results))
    /\ \A i \in 1..Len(results) :
         LET result == results[i]
             engineType == TrimSpace(result.Type)
         IN
         \A n \in 1..ExpectedIssues(result) :
           LET issue == issues[FirstIssue(i) + n - 1] IN
           /\ issue.RuleID = result.ID
           /\ issue.EngineID = result.Type
           /\ engineType = SastType =>
                /\ Len(result.Nodes) > 0 =>
                     /\ issue.PrimaryLocation.FilePath = TrimLeftSlash(result.Nodes[1].FileName)
                     /\ issue.PrimaryLocation.TextRange.StartLine = result.Nodes[1].Line
                     /\ issue.PrimaryLocation.TextRange.StartColumn = result.Nodes[1].Column
                     /\ NonEmptyColumns(issue.PrimaryLocation.TextRange)
                /\ Len(issue.SecondaryLocations) = (IF Len(result.Nodes) > 0
                                                      THEN Len(result.Nodes) - 1 ELSE 0)
                /\ \A k \in 1..Len(issue.SecondaryLocations) :
                     /\ issue.SecondaryLocations[k].FilePath
                          = TrimLeftSlash(result.Nodes[k + 1].FileName)
                     /\ issue.SecondaryLocations[k].TextRange.StartLine
                          = result.Nodes[k + 1].Line
                     /\ issue.SecondaryLocations[k].TextRange.StartColumn
                          = result.Nodes[k + 1].Column
                     /\ NonEmptyColumns(issue.SecondaryLocations[k].TextRange)
           /\ engineType = KicsType =>
                /\ issue.PrimaryLocation.FilePath = TrimLeftSlash(result.Filename)
                /\ issue.PrimaryLocation.TextRange.StartLine = result.Line
                /\ issue.SecondaryLocations = <<>>
           /\ engineType = ScaType =>
                /\ issue.PrimaryLocation.FilePath = packageLocations(result)[n]
                /\ issue.SecondaryLocations = <<>>

\* A static-analysis finding of two nodes, the second of length 0: its issue has
\* one secondary location, with a column range widened by one.
C24_Witness ==
  /\ WroteDocument(FormatSonar)
  /\ \E i \in 1..Len(results) :
       /\ results[i].Type = SastType
       /\ Len(results[i].Nodes) = 2
       /\ results[i].Nodes[2].Length = 0
       /\ Len(document.Results[FirstIssue(i)].SecondaryLocations) = 1
       /\ document.Results[FirstIssue(i)].SecondaryLocations[1].TextRange.EndColumn
            = results[i].Nodes[2].Column + 1

(***************************************************************************)
(* The gl-sast document.                                                   *)
(***************************************************************************)
\* The static-analysis findings of the result set, in order.
SastFindings == SelectSeq(results, LAMBDA r : TrimSpace(r.Type) = SastType)

\* The document has one vulnerability for each static-analysis finding and none
\* for the others; each has one tracking item, and there and in its location
\* EndLine - StartLine is the Length of the finding's first node.
GlDocumentOf(doc) ==
  /\ doc.kind = FormatGL
  /\ Len(doc.Vulnerabilities) = Len(SastFindings)
  /\ \A j \in 1..Len(doc.Vulnerabilities) :
       LET v == doc.Vulnerabilities[j] IN
       /\ v.Identifiers[1].Value = SastFindings[j].ID
       /\ Len(v.Tracking.Items) = 1
       /\ v.Tracking.Items[1].EndLine - v.Tracking.Items[1].StartLine
            = SastFindings[j].Nodes[1].Length
       /\ v.Location.EndLine - v.Location.StartLine = SastFindings[j].Nodes[1].Length
       /\ v.Location.StartLine = SastFindings[j].Nodes[1].Line

\* The createReport call of this step failed to create its file.
CreateFailed == pc' = "done" /\ err' # NoErr /\ document' = document

\* C25: the gl-sast encoder, run on the result set, emits a document with one
\* vulnerability for each static-analysis finding.
C25_GlVulnerabilities ==
  [][AtFormat(FormatGL) => (CreateFailed \/ GlDocumentOf(document'))]_vars

\* The same for the result sets whose static-analysis findings all have a node.
C25_GlVulnerabilitiesWithNodes ==
  [][(AtFormat(FormatGL) /\ ~glSastPanics(results))
       => (CreateFailed \/ GlDocumentOf(document'))]_vars

(***************************************************************************)
(* The severities in the documents.                                        *)
(***************************************************************************)
\* The four severities, as the service spells them.
Severities == {"INFO", "LOW", "MEDIUM", "HIGH"}

\* SARIF level and score of each severity.
SarifLevelOf(severity) ==
  CASE severity = "INFO" -> "note"
    [] severity = "LOW" -> "note"
    [] severity = "MEDIUM" -> "warning"
    [] severity = "HIGH" -> "error"

ScoreOf(severity) ==
  CASE severity = "INFO" -> "3.5"
    [] severity = "LOW" -> "6.5"
    [] severity = "MEDIUM" -> "8.5"
    [] severity = "HIGH" -> "9.5"

\* The Sonar severities the table of the specification allows for a severity.
SonarAsStated(severity) ==
  CASE severity = "INFO" -> {"MINOR", "MAJOR"}
    [] severity = "LOW" -> {"INFO", "MINOR", "MAJOR", "CRITICAL"}
    [] severity = "MEDIUM" -> {"MAJOR"}
    [] severity = "HIGH" -> {"CRITICAL"}

\* The Sonar severity of each severity.
SonarOf(severity) ==
  CASE severity = "INFO" -> {"INFO"}
    [] severity = "LOW" -> {"MINOR"}
    [] severity = "MEDIUM" -> {"MAJOR"}
    [] severity = "HIGH" -> {"CRITICAL"}

\* The position in the SARIF document of the first result entry of finding i.
FirstSarifResult(i) ==
  1 + SumOver([k \in 1..Len(results) |-> Len(findResult(results[k]))], 1..(i - 1))

\* Level and score in the SARIF document are those of the findings' severities.
SarifSeverities ==
  WroteDocument(FormatSarif) =>
    /\ \A i \in 1..Len(results) :
         \A n \in 1..Len(findResult(results[i])) :
           document.Results[FirstSarifResult(i) + n - 1].Level
             = SarifLevelOf(results[i].Severity)
    /\ \A j \in 1..Len(document.Rules) :
         document.Rules[j].Properties.SecuritySeverity
           = ScoreOf(results[FirstWithRule(document.Rules[j].ID)].Severity)

\* The severity of issue n of finding i in the Sonar document.
SonarIssueSeverity(i, n) == document.Results[FirstIssue(i) + n - 1].Severity

\* C26 as stated: level note/note/warning/error, score 3.5/6.5/8.5/9.5, Sonar
\* severity MINOR or MAJOR for info, MAJOR for medium, CRITICAL for high, and
\* never empty.
C26_SeverityTableAsStated ==
  /\ SarifSeverities
  /\ WroteDocument(FormatSonar) =>
       \A i \in 1..Len(results) :
         \A n \in 1..ExpectedIssues(results[i]) :
           SonarIssueSeverity(i, n) \in SonarAsStated(results[i].Severity)

\* C26, amended: level note/note/warning/error, score 3.5/6.5/8.5/9.5 and Sonar
\* severity INFO/MINOR/MAJOR/CRITICAL for the severities INFO/LOW/MEDIUM/HIGH.
C26_SeverityTable ==
  /\ SarifSeverities
  /\ WroteDocument(FormatSonar) =>
       \A i \in 1..Len(results) :
         \A n \in 1..ExpectedIssues(results[i]) :
           SonarIssueSeverity(i, n) \in SonarOf(results[i].Severity)

\* A Sonar document with the issue of a finding of severity INFO, given INFO, and
\* the issue of a finding of severity LOW, given MINOR.
C26_Witness ==
  /\ WroteDocument(FormatSonar)
  /\ Len(results) = 2
  /\ Len(document.Results) = 2
  /\ results[1].Severity = "INFO" /\ document.Results[1].Severity = "INFO"
  /\ results[2].Severity = "LOW" /\ document.Results[2].Severity = "MINOR"


(***************************************************************************)
(* Dependency findings the classification table marks ignored.             *)
(***************************************************************************)
\* The finding is of dependency type and the entry of its id is marked ignored.
IgnoredByTable(result) ==
  /\ result.Type = ScaType
  /\ typesByCVE(scaTypeModel, result.ID) # <<>>
  /\ typesByCVE(scaTypeModel, result.ID)[1].IsIgnored

\* The Summary the builder returns for the result set rs.
SummaryOf(rs) == summaryReport(convertScanToResultsSummary(scan), rs)

====
